---------------------------- MODULE Spec2Model ----------------------------
(***************************************************************************)
(* A model of unigd's rendering core: the snapshot history store           *)
(* (plot_history.h), the render request entry point (unigd.cpp), the       *)
(* clip-aware page dispatchers of the raster, SVG and JSON backends and    *)
(* their per-shape handlers (renderer_cairo.cpp, renderer_svg.cpp,         *)
(* renderer_json.cpp).                                                     *)
(*                                                                         *)
(* Four specifications share the variables:                                *)
(*   Spec        the history store driven by the device-level operations   *)
(*   SpecRender  render requests (unigd_render_) against a fixed store     *)
(*   SpecPage    one backend rendering one Page, draw call by draw call    *)
(*   SpecShape   as SpecPage, on one-call pages over a wide set of shapes  *)
(***************************************************************************)
EXTENDS Integers, Sequences, FiniteSets, TLC

VARIABLES
  \* ---- history store (PlotHistory) and the live drawing surface
  m_items,      \* index -> stored snapshot, NoSnap where no entry exists
  m_order,      \* indices of the entries, oldest insertion first
  surface,      \* state of the live drawing surface (pDevDesc dd)
  h_op,         \* the operation that ran last, with its arguments
  h_ret,        \* what that operation returned
  h_stored,     \* per index: the snapshot last stored there and not removed since
  h_gaps,       \* indices whose entry was removed and not stored again since
  \* ---- one render request (unigd_render_)
  rpc,          \* position inside unigd_render_
  rq,           \* the arguments of the request
  r_zoom,       \* local zoom after the negative-size rule
  r_ren,        \* renderer_map_entry filled in by find
  renderer,     \* the backend instance made by ren.generator()
  r_args,       \* what plt_render handed to the backend: width, height, scale
  r_result,     \* what the request returned to R: a buffer or an error
  n_req,        \* requests started
  n_inst,       \* backend instances created
  \* ---- one backend rendering one Page
  page,         \* the Page being rendered
  backend,      \* which backend renders it
  m_scale,      \* the scale handed to render
  ppc,          \* position inside render / page
  os,           \* what the backend has emitted so far
  last_id,      \* the dispatcher's last_id / last_clip_id
  dci,          \* number of draw calls of the Page already handled
  visited,      \* the draw calls whose handler was invoked, in invocation order
  cr_clip,      \* raster backend: the active clipping rectangle's Clip
  m_unique_id,  \* SVG portable: the per-render token of the clip-path ids
  \* ---- one decoding of a dash code (set_linetype, css_lineinfo, att_lineinfo)
  d_pc,         \* position inside the decoding
  d_backend,    \* whose decoder runs
  d_lty,        \* line.lty, the dash code
  d_lwd,        \* line.lwd
  d_dt,         \* the loop's shifted copy of the code (dt, or the local lty)
  d_l,          \* the loop counter (l, or i)
  d_ls,         \* the entries written so far
  \* ---- the buffer an earlier render of the same Page returned
  prev,         \* get_data of the earlier backend instance, and its token
  \* ---- work handed to the owning thread (r_thread) while it uses the history
  work_queue,   \* the tasks pushed and not yet popped
  message_fd,   \* bytes written to the pipe and not yet read
  r_pc,         \* the owning thread: in the host's event loop, or in input_handler
  w_pc,         \* the other threads: each one's position inside r_thread_impl
  mut,          \* the history operation the owning thread is inside of
  seen,         \* what the task that ran last found at its index
  n_tasks,      \* tasks submitted
  \* ---- one run of the sub-path loop of a Path handler
  l_pc,         \* position inside the loop
  l_backend,    \* whose handler runs
  l_points,     \* the number of points of the Path
  l_nper,       \* the Path's nper
  l_it,         \* points already handled (it)
  l_poly,       \* nper entries already read (it_poly)
  l_left,       \* the local left; -1 stands for a value wrapped below zero
  l_out,        \* what the loop has emitted
  l_past        \* whether *it_poly was read past the end of nper

vars_hist == <<m_items, m_order, surface, h_op, h_ret, h_stored, h_gaps>>
vars_req  == <<rpc, rq, r_zoom, r_ren, renderer, r_args, r_result, n_req, n_inst>>
vars_page == <<page, backend, m_scale, ppc, os, last_id, dci, visited, cr_clip, m_unique_id>>
vars_dash == <<d_pc, d_backend, d_lty, d_lwd, d_dt, d_l, d_ls>>
vars_prev == <<prev>>
vars_thr == <<work_queue, message_fd, r_pc, w_pc, mut, seen, n_tasks>>
vars_loop == <<l_pc, l_backend, l_points, l_nper, l_it, l_poly, l_left, l_out, l_past>>
vars == <<vars_hist, vars_req, vars_page, vars_dash, vars_prev, vars_loop, vars_thr>>

\* what the operations of one part of the model leave alone
other_than_hist == <<vars_thr, vars_req, vars_page, vars_dash, vars_prev, vars_loop>>
other_than_req == <<vars_thr, vars_hist, vars_page, vars_dash, vars_prev, vars_loop>>
other_than_page == <<vars_thr, vars_hist, vars_req, vars_dash, vars_prev, vars_loop>>
other_than_loop == <<vars_thr, vars_hist, vars_req, vars_page, vars_dash, vars_prev>>
other_than_dash == <<vars_thr, vars_hist, vars_req, vars_page, vars_prev, vars_loop>>

(***************************************************************************)
(* Bounds of the model.                                                    *)
(***************************************************************************)
MaxIndex == 2      \* history indices are 0..MaxIndex
MaxRequests == 2   \* render requests per behaviour
MaxDcs == 3        \* draw calls per Page in SpecPage
MaxStrLen == 2     \* SpecText: every string up to this length
MaxTaskIndex == 1  \* SpecThread: tasks and history operations use indices 0..MaxTaskIndex

Index == 0..MaxIndex
NoSnap == 0
Snaps == {1, 2}      \* two distinguishable snapshots

\* -------------------------------------------------------------------------
\* Sequence helpers
\* -------------------------------------------------------------------------
RECURSIVE SeqWithout(_, _)
SeqWithout(s, x) ==
  IF s = <<>> THEN <<>>
  ELSE IF Head(s) = x THEN SeqWithout(Tail(s), x)
       ELSE <<Head(s)>> \o SeqWithout(Tail(s), x)

SeqsUpTo(S, n) == UNION {[1..k -> S] : k \in 0..n}


\* -------------------------------------------------------------------------
\* Idle values of the variables a specification does not use
\* -------------------------------------------------------------------------
NoOp == [name |-> "none", i |-> 0, s |-> NoSnap]
NoRet == [err |-> "", b |-> FALSE, snap |-> NoSnap]
NoRq == [devnum |-> TRUE, page |-> 0, width |-> 0, height |-> 0, zoom |-> 1,
         renderer_id |-> ""]
NoRen == [id |-> "", text |-> FALSE, kind |-> ""]
NoInst == [id |-> 0, kind |-> "", renders |-> 0, rows |-> 0, height |-> 0,
           complete |-> FALSE, failed |-> FALSE, pages |-> <<>>]
NoArgs == [width |-> 0, height |-> 0, scale |-> 0]
NoResult == [err |-> "", returned |-> FALSE, text |-> FALSE, inst |-> 0,
             rows |-> 0, height |-> 0, complete |-> FALSE]
NoClip == [id |-> -1, x |-> 0, y |-> 0, width |-> 0, height |-> 0]
NoPage == [id |-> 0, w |-> 0, h |-> 0, fill |-> <<0, 0, 0, 0>>, cps |-> <<>>, dcs |-> <<>>]
NoPrev == [returned |-> FALSE, os |-> <<>>, m_unique_id |-> 0]
NoMut == [name |-> "none", i |-> 0, s |-> NoSnap]
NoSeen == [index |-> 0, snap |-> NoSnap, torn |-> FALSE, ran |-> 0, order |-> <<>>,
           ready |-> {}]

\* the threads that submit tasks
Producers == {"api", "server"}

ThreadIdle ==
  /\ work_queue = <<>>
  /\ message_fd = 0
  /\ r_pc = "loop"
  /\ w_pc = [p \in Producers |-> "idle"]
  /\ mut = NoMut
  /\ seen = NoSeen
  /\ n_tasks = 0

LoopIdle ==
  /\ l_pc = "idle"
  /\ l_backend = ""
  /\ l_points = 0
  /\ l_nper = <<>>
  /\ l_it = 0
  /\ l_poly = 0
  /\ l_left = 0
  /\ l_out = <<>>
  /\ l_past = FALSE

HistIdle ==
  /\ m_order = <<>>
  /\ surface = 1
  /\ h_op = NoOp
  /\ h_ret = NoRet
  /\ h_stored = [i \in Index |-> NoSnap]
  /\ h_gaps = {}

ReqIdle ==
  /\ rpc = "idle"
  /\ rq = NoRq
  /\ r_zoom = 1
  /\ r_ren = NoRen
  /\ renderer = NoInst
  /\ r_args = NoArgs
  /\ r_result = NoResult
  /\ n_req = 0
  /\ n_inst = 0

PageIdle ==
  /\ page = NoPage
  /\ backend = ""
  /\ m_scale = 1
  /\ ppc = "idle"
  /\ os = <<>>
  /\ last_id = -1
  /\ dci = 0
  /\ visited = <<>>
  /\ cr_clip = NoClip
  /\ m_unique_id = 0
  /\ prev = NoPrev

DashIdle ==
  /\ d_pc = "idle"
  /\ d_backend = ""
  /\ d_lty = 0
  /\ d_lwd = 0
  /\ d_dt = 0
  /\ d_l = 0
  /\ d_ls = <<>>

(***************************************************************************)
(* Snapshot History Store.  plot_history.h declares the operations; their  *)
(* bodies are not part of the sources, so they follow spec section 4.6:    *)
(* index-addressed entries, gaps permitted, putLast overwriting the most   *)
(* recently inserted entry, play replaying onto the live surface.          *)
(***************************************************************************)
Ret(b, s) == [err |-> "", b |-> b, snap |-> s]
Err(msg) == [err |-> msg, b |-> FALSE, snap |-> NoSnap]

ArgIndex == -1..(MaxIndex + 1)

item_at(items, i) == IF i \in DOMAIN items THEN items[i] ELSE NoSnap

\* PlotHistory::get: whether an entry exists at the index, and its snapshot
get_result(items, i) == Ret(item_at(items, i) # NoSnap, item_at(items, i))

\* PlotHistory::put: insert or overwrite at an explicit index
put_items(items, i, s) == [items EXCEPT ![i] = s]
put_order(order, i) == SeqWithout(order, i) \o <<i>>

\* PlotHistory::put_last, a variant that stores at the index it is given
put_last_at_index(items, order, i, s) ==
  IF i \in DOMAIN items THEN [items EXCEPT ![i] = s] ELSE items

\* the entry putLast overwrites: the most recently inserted one, -1 if none
last_inserted(order) == IF order = <<>> THEN -1 ELSE order[Len(order)]

\* PlotHistory::put_last: the index argument does not select the entry
put_last_items(items, order, i, s) ==
  IF last_inserted(order) = -1 THEN items
  ELSE [items EXCEPT ![last_inserted(order)] = s]

\* PlotHistory::remove, a variant that closes the gap by moving every later
\* entry one index down
remove_items_compacting(items, i) ==
  [j \in DOMAIN items |->
     IF j < i \/ i \notin DOMAIN items THEN items[j]
     ELSE IF j + 1 \in DOMAIN items THEN items[j + 1] ELSE NoSnap]

\* PlotHistory::remove: delete the entry, leave every other index alone
remove_items(items, i) ==
  IF i \in DOMAIN items THEN [items EXCEPT ![i] = NoSnap] ELSE items

\* PlotHistory::clear, a variant that leaves the entry at index 0 behind
clear_items_keeping(items) == [i \in DOMAIN items |-> IF i = 0 THEN items[i] ELSE NoSnap]

\* PlotHistory::clear
clear_items(items) == [i \in DOMAIN items |-> NoSnap]

\* PlotHistory::play, a variant that replays onto the surface before it
\* looks the index up
play_surface_unchecked(items, i, surf) == item_at(items, i)

\* PlotHistory::play: the surface after the call
play_surface(items, i, surf) ==
  IF item_at(items, i) = NoSnap THEN surf ELSE item_at(items, i)

\* validate_unigddev: a device number that names no unigd device stops the call
validate_unigddev(devnum) == devnum

\* unigd_device::plt_index: the index of the entry holding plot_id, -1 if none
plt_index(items, plot_id) ==
  IF \E i \in DOMAIN items : items[i] = plot_id
  THEN CHOOSE i \in DOMAIN items :
         /\ items[i] = plot_id
         /\ \A j \in DOMAIN items : items[j] = plot_id => i <= j
  ELSE -1

\* the host draws on the live surface
Draw(s) ==
  /\ UNCHANGED other_than_hist
  /\ s # surface
  /\ surface' = s
  /\ h_op' = [name |-> "draw", i |-> 0, s |-> s]
  /\ h_ret' = NoRet
  /\ UNCHANGED <<m_items, m_order, h_stored, h_gaps>>

put(i, s) ==
  /\ UNCHANGED other_than_hist
  /\ m_items' = put_items(m_items, i, s)
  /\ m_order' = put_order(m_order, i)
  /\ h_stored' = [h_stored EXCEPT ![i] = s]
  /\ h_gaps' = h_gaps \ {i}
  /\ h_op' = [name |-> "put", i |-> i, s |-> s]
  /\ h_ret' = NoRet
  /\ UNCHANGED surface

put_current(i) ==
  /\ UNCHANGED other_than_hist
  /\ m_items' = put_items(m_items, i, surface)
  /\ m_order' = put_order(m_order, i)
  /\ h_stored' = [h_stored EXCEPT ![i] = surface]
  /\ h_gaps' = h_gaps \ {i}
  /\ h_op' = [name |-> "put_current", i |-> i, s |-> surface]
  /\ h_ret' = Ret(TRUE, NoSnap)
  /\ UNCHANGED surface

put_last(i) ==
  /\ UNCHANGED other_than_hist
  /\ m_items' = put_last_items(m_items, m_order, i, surface)
  /\ h_stored' = IF m_order = <<>> THEN h_stored
                 ELSE [h_stored EXCEPT ![m_order[Len(m_order)]] = surface]
  /\ h_op' = [name |-> "put_last", i |-> i, s |-> surface]
  /\ h_ret' = NoRet
  /\ UNCHANGED <<m_order, surface, h_gaps>>

get(i) ==
  /\ UNCHANGED other_than_hist
  /\ h_op' = [name |-> "get", i |-> i, s |-> NoSnap]
  /\ h_ret' = get_result(m_items, i)
  /\ UNCHANGED <<m_items, m_order, surface, h_stored, h_gaps>>

\* PlotHistory::remove as reached through unigd_device::plt_remove
plt_remove(i) ==
  /\ m_items' = remove_items(m_items, i)
  /\ m_order' = SeqWithout(m_order, i)
  /\ h_stored' = [j \in Index |-> IF j = i THEN NoSnap ELSE h_stored[j]]
  /\ h_gaps' = IF item_at(m_items, i) # NoSnap THEN h_gaps \cup {i} ELSE h_gaps
  /\ h_ret' = Ret(item_at(m_items, i) # NoSnap, NoSnap)
  /\ UNCHANGED surface

unigd_remove_(devnum, i) ==
  /\ UNCHANGED other_than_hist
  /\ h_op' = [name |-> "remove", i |-> i, s |-> NoSnap]
  /\ IF validate_unigddev(devnum)
     THEN plt_remove(i)
     ELSE /\ h_ret' = Err("Not a valid device number")
          /\ UNCHANGED <<m_items, m_order, surface, h_stored, h_gaps>>

unigd_remove_id_(devnum, plot_id) ==
  /\ UNCHANGED other_than_hist
  /\ h_op' = [name |-> "remove_id", i |-> plt_index(m_items, plot_id), s |-> plot_id]
  /\ IF ~validate_unigddev(devnum)
     THEN /\ h_ret' = Err("Not a valid device number")
          /\ UNCHANGED <<m_items, m_order, surface, h_stored, h_gaps>>
     ELSE IF plt_index(m_items, plot_id) = -1
     THEN /\ h_ret' = Err("Not a valid plot ID.")
          /\ UNCHANGED <<m_items, m_order, surface, h_stored, h_gaps>>
     ELSE plt_remove(plt_index(m_items, plot_id))

\* PlotHistory::clear as reached through unigd_device::plt_clear
unigd_clear_(devnum) ==
  /\ UNCHANGED other_than_hist
  /\ h_op' = [name |-> "clear", i |-> 0, s |-> NoSnap]
  /\ IF validate_unigddev(devnum)
     THEN /\ m_items' = clear_items(m_items)
          /\ m_order' = <<>>
          /\ h_stored' = [j \in Index |-> NoSnap]
          /\ h_ret' = Ret(TRUE, NoSnap)
          /\ UNCHANGED <<surface, h_gaps>>
     ELSE /\ h_ret' = Err("Not a valid device number")
          /\ UNCHANGED <<m_items, m_order, surface, h_stored, h_gaps>>

play(i) ==
  /\ UNCHANGED other_than_hist
  /\ surface' = play_surface(m_items, i, surface)
  /\ h_op' = [name |-> "play", i |-> i, s |-> surface]
  /\ h_ret' = Ret(item_at(m_items, i) # NoSnap, NoSnap)
  /\ UNCHANGED <<m_items, m_order, h_stored, h_gaps>>

HistInit ==
  /\ m_items = [i \in Index |-> NoSnap]
  /\ HistIdle
  /\ ReqIdle
  /\ ThreadIdle
  /\ LoopIdle
  /\ PageIdle
  /\ DashIdle

HistNext ==
  \/ \E s \in Snaps : Draw(s)
  \/ \E i \in Index, s \in Snaps : put(i, s)
  \/ \E i \in Index : put_current(i)
  \/ \E i \in ArgIndex : put_last(i)
  \/ \E i \in ArgIndex : get(i)
  \/ \E d \in BOOLEAN, i \in ArgIndex : unigd_remove_(d, i)
  \/ \E d \in BOOLEAN, id \in Snaps : unigd_remove_id_(d, id)
  \/ \E d \in BOOLEAN : unigd_clear_(d)
  \/ \E i \in ArgIndex : play(i)

Spec == HistInit /\ [][HistNext]_vars


(***************************************************************************)
(* Render requests: unigd_render_ (unigd.cpp) over the renderer registry   *)
(* (renderers.h) and the encoders of the raster targets                    *)
(* (renderer_cairo.cpp).  The registry's table, unigd_device::plt_render   *)
(* and the stored Page's size are not part of the sources and follow spec  *)
(* sections 2 and 6.                                                       *)
(***************************************************************************)
\* The registered backends: id, is_text_output flag, backend family
Registry ==
  { [id |-> "svg",  text |-> TRUE,  kind |-> "svg"],
    [id |-> "png",  text |-> FALSE, kind |-> "png"],
    [id |-> "tiff", text |-> FALSE, kind |-> "tiff"] }

RendererIds == {"svg", "png", "tiff", "gif"}   \* "gif" is not registered
RqSizes == {-4, 0, 8}                           \* requested width and height
RqZooms == {1, 2}
RqPages == {-1, 0, MaxIndex}

\* renderers::find: whether the id is registered
find(id) == \E e \in Registry : e.id = id
\* renderers::find: the entry written to *renderer
find_entry(id) == CHOOSE e \in Registry : e.id = id

\* the zoom rule of unigd_render_ with the two size tests joined by "and"
forced_zoom_both(width, height, zoom) ==
  IF width < 0 /\ height < 0 THEN 1 ELSE zoom

\* unigd_render_: if (width < 0 || height < 0) zoom = 1
forced_zoom(width, height, zoom) ==
  IF width < 0 \/ height < 0 THEN 1 ELSE zoom

\* width / zoom on doubles; the requested sizes are multiples of every zoom,
\* so the quotient is exact
DivD(a, z) == a \div z

\* rows of the pixel surface: page.size.y * t_scale, truncated to int
page_height(snap) == snap
surface_rows(snap, scale) == page_height(snap) * scale

\* a generator that hands out one instance again and again: at its id-th
\* call the instance has rendered id - 1 times already
shared_instance(id, kind) ==
  [id |-> 1, kind |-> kind, renders |-> id - 1, rows |-> 0, height |-> 0,
   complete |-> FALSE, failed |-> FALSE, pages |-> [k \in 1..(id - 1) |-> 0]]

\* ren.generator(): a fresh backend instance
new_instance(id, kind) ==
  [id |-> id, kind |-> kind, renders |-> 0, rows |-> 0, height |-> 0,
   complete |-> FALSE, failed |-> FALSE, pages |-> <<>>]

\* unigd_render_, entry: validate_unigddev and the negative-size rule
unigd_render_call(devnum, pg, width, height, zoom, renderer_id) ==
  /\ rpc \in {"idle", "done"}
  /\ n_req < MaxRequests
  /\ n_req' = n_req + 1
  /\ rq' = [devnum |-> devnum, page |-> pg, width |-> width, height |-> height,
            zoom |-> zoom, renderer_id |-> renderer_id]
  /\ r_ren' = NoRen
  /\ renderer' = NoInst
  /\ r_args' = NoArgs
  /\ IF validate_unigddev(devnum)
     THEN /\ r_zoom' = forced_zoom(width, height, zoom)
          /\ r_result' = NoResult
          /\ rpc' = "find"
     ELSE /\ r_zoom' = zoom
          /\ r_result' = [NoResult EXCEPT !.err = "Not a valid device number"]
          /\ rpc' = "done"
  /\ UNCHANGED n_inst
  /\ UNCHANGED other_than_req

\* unigd_render_ without the test of find's result
unigd_render_find_unchecked ==
  /\ rpc = "find"
  /\ r_ren' = IF find(rq.renderer_id) THEN find_entry(rq.renderer_id) ELSE NoRen
  /\ rpc' = "generate"
  /\ UNCHANGED r_result
  /\ UNCHANGED <<rq, r_zoom, renderer, r_args, n_req, n_inst>>
  /\ UNCHANGED other_than_req

\* unigd_render_: find the renderer, stop on an unknown id
unigd_render_find ==
  /\ rpc = "find"
  /\ IF find(rq.renderer_id)
     THEN /\ r_ren' = find_entry(rq.renderer_id)
          /\ rpc' = "generate"
          /\ UNCHANGED r_result
     ELSE /\ r_result' = [NoResult EXCEPT !.err = "Not a valid renderer ID."]
          /\ rpc' = "done"
          /\ UNCHANGED r_ren
  /\ UNCHANGED <<rq, r_zoom, renderer, r_args, n_req, n_inst>>
  /\ UNCHANGED other_than_req

\* unigd_render_: auto renderer = ren.generator()
unigd_render_generate ==
  /\ rpc = "generate"
  /\ n_inst' = n_inst + 1
  /\ renderer' = new_instance(n_inst + 1, r_ren.kind)
  /\ rpc' = "plt_render"
  /\ UNCHANGED <<rq, r_zoom, r_ren, r_args, r_result, n_req>>
  /\ UNCHANGED other_than_req

\* a plt_render that stores the page again at the requested size
plt_render_items_restored(items, i) ==
  IF item_at(items, i) = NoSnap THEN items
  ELSE put_items(items, i, CHOOSE s \in Snaps : s # item_at(items, i))

\* unigd_device::plt_render: the store after the call; the backend borrows
\* the Page as const Page & and the store keeps every entry as it was
plt_render_items(items, i) == items

\* unigd_render_: dev->plt_render(page, width / zoom, height / zoom, renderer,
\* zoom); false stops the request, otherwise the backend's render has begun
unigd_render_plt_render ==
  /\ rpc = "plt_render"
  /\ r_args' = [width |-> DivD(rq.width, r_zoom), height |-> DivD(rq.height, r_zoom),
                scale |-> r_zoom]
  /\ IF item_at(m_items, rq.page) = NoSnap
     THEN /\ r_result' = [NoResult EXCEPT !.err = "Plot does not exist."]
          /\ rpc' = "done"
          /\ UNCHANGED renderer
     ELSE /\ renderer' = [renderer EXCEPT
                            !.renders = @ + 1,
                            !.pages = Append(@, rq.page),
                            !.height = surface_rows(item_at(m_items, rq.page), r_zoom)]
          /\ rpc' = "encode"
          /\ UNCHANGED r_result
  /\ m_items' = plt_render_items(m_items, rq.page)
  /\ UNCHANGED <<rq, r_zoom, r_ren, n_req, n_inst>>
  /\ UNCHANGED <<m_order, surface, h_op, h_ret, h_stored, h_gaps>>
  /\ UNCHANGED <<vars_page, vars_dash, vars_prev, vars_loop, vars_thr>>

\* RendererCairoTiff::render, one pass of the row loop: TIFFWriteScanline
\* succeeds or returns a negative value, which leaves the loop
TIFFWriteScanline(ok) ==
  /\ rpc = "encode"
  /\ renderer.kind = "tiff"
  /\ renderer.rows < renderer.height
  /\ IF ok
     THEN /\ renderer' = [renderer EXCEPT !.rows = @ + 1]
          /\ rpc' = IF renderer.rows + 1 = renderer.height THEN "close" ELSE "encode"
     ELSE /\ renderer' = [renderer EXCEPT !.failed = TRUE]
          /\ rpc' = "close"
  /\ UNCHANGED <<rq, r_zoom, r_ren, r_args, r_result, n_req, n_inst>>
  /\ UNCHANGED other_than_req

\* RendererCairoTiff::render, after the loop: TIFFClose, then m_render_data
\* takes whatever the stream holds; render returns void
TIFFClose ==
  /\ rpc = "close"
  /\ renderer' = [renderer EXCEPT !.complete = (renderer.rows = renderer.height)]
  /\ rpc' = "get_data"
  /\ UNCHANGED <<rq, r_zoom, r_ren, r_args, r_result, n_req, n_inst>>
  /\ UNCHANGED other_than_req

\* RendererCairoPng::render: cairo_surface_write_to_png_stream feeds
\* cairowrite_ucvec, which always reports success; the status the encoder
\* itself returns is dropped, so an encoder that gives up part-way leaves
\* m_render_data with the chunks written until then
cairo_surface_write_to_png_stream(status_ok, written) ==
  /\ rpc = "encode"
  /\ renderer.kind = "png"
  /\ status_ok => written = renderer.height
  /\ ~status_ok => written < renderer.height
  /\ renderer' = [renderer EXCEPT !.rows = written,
                                  !.failed = ~status_ok,
                                  !.complete = status_ok]
  /\ rpc' = "get_data"
  /\ UNCHANGED <<rq, r_zoom, r_ren, r_args, r_result, n_req, n_inst>>
  /\ UNCHANGED other_than_req

\* RendererSVG::render: the whole document is formatted into memory
RendererSVG_render ==
  /\ rpc = "encode"
  /\ renderer.kind = "svg"
  /\ renderer' = [renderer EXCEPT !.rows = renderer.height, !.complete = TRUE]
  /\ rpc' = "get_data"
  /\ UNCHANGED <<rq, r_zoom, r_ren, r_args, r_result, n_req, n_inst>>
  /\ UNCHANGED other_than_req

\* unigd_render_: renderer->get_data(&buf, &buf_size), then the buffer is
\* returned as a string or as raw bytes
unigd_render_get_data ==
  /\ rpc = "get_data"
  /\ r_result' = [err |-> "", returned |-> TRUE, text |-> r_ren.text,
                  inst |-> renderer.id, rows |-> renderer.rows,
                  height |-> renderer.height, complete |-> renderer.complete]
  /\ rpc' = "done"
  /\ UNCHANGED <<rq, r_zoom, r_ren, renderer, r_args, n_req, n_inst>>
  /\ UNCHANGED other_than_req

\* every number of rows a surface of these pages can have
RowCounts == {0} \cup {surface_rows(s, z) : s \in Snaps, z \in RqZooms}

\* the stores render requests run against
RenderStores ==
  { [i \in Index |-> IF i \in P THEN s ELSE NoSnap] :
      P \in {{}, {0}, {MaxIndex}}, s \in Snaps }

RenderInit ==
  /\ m_items \in RenderStores
  /\ HistIdle
  /\ ReqIdle
  /\ ThreadIdle
  /\ LoopIdle
  /\ PageIdle
  /\ DashIdle

RenderNext ==
  \/ \E d \in BOOLEAN, pg \in RqPages, w \in RqSizes, h \in RqSizes,
        z \in RqZooms, id \in RendererIds :
       unigd_render_call(d, pg, w, h, z, id)
  \/ unigd_render_find
  \/ unigd_render_generate
  \/ unigd_render_plt_render
  \/ \E ok \in BOOLEAN : TIFFWriteScanline(ok)
  \/ TIFFClose
  \/ \E ok \in BOOLEAN, n \in RowCounts :
       cairo_surface_write_to_png_stream(ok, n)
  \/ RendererSVG_render
  \/ unigd_render_get_data

SpecRender == RenderInit /\ [][RenderNext]_vars

(***************************************************************************)
(* Scene data model.  A color is a packed 32-bit value; it is kept here as *)
(* its four bytes red, green, blue, alpha, which is all the backends read  *)
(* of it.  Doubles are counted in thousandths, so that the "{:.2f}"        *)
(* conversions of the text backends round.  The value types themselves     *)
(* (draw_data.h) are not part of the sources; their fields are the ones    *)
(* the backends read.                                                      *)
(***************************************************************************)
UNIGD_PIPE_BUFFER_SIZE == 32
byte_mask == 255
rgba(r, g, b, a) == <<r, g, b, a>>
rgb(r, g, b) == rgba(r, g, b, 255)
red(col) == col[1]
green(col) == col[2]
blue(col) == col[3]
alpha(col) == col[4]
transparent(col) == alpha(col) = 0

\* a whole number as a double
D(n) == n * 1000
\* "{:.2f}": a non-negative double rounded to hundredths
Fmt2(x) == (x + 5) \div 10
\* "{:.2f}" of alpha / 255.0 (color::byte_frac), in hundredths
byte_frac2(a) == (a * 200 + 255) \div 510
\* "{:.2f}" of the quotient n / d of two doubles
Fmt2Of(n, d) == (2 * n + 10 * d) \div (20 * d)
\* static_cast<int>(double)
ToInt(x) == x \div 1000

LTY_BLANK == -1
LTY_SOLID == 0
GC_ROUND_CAP == 1
GC_BUTT_CAP == 2
GC_SQUARE_CAP == 3
GC_ROUND_JOIN == 1
GC_MITRE_JOIN == 2
GC_BEVEL_JOIN == 3

Kinds == {"rect", "text", "circle", "line", "polyline", "polygon", "path", "raster"}

\* an output token: what was emitted and its arguments
Tok(op, args) == [op |-> op, a |-> args]

\* -------------------------------------------------------------------------
\* Dash patterns
\* -------------------------------------------------------------------------
\* the nibbles of a 32-bit word
NibblesPerWord == 8

\* set_linetype: unsigned int dt = line.lty;
\*   for (l = 0; dt != 0; dt >>= 4, l++) ls[l] = (dt & 0xF) * lwd / 96 * 72
\* dt is followed as the signed value shifted arithmetically: the unsigned
\* word has the same nibbles and is zero after l = 8 shifts
RECURSIVE cairo_dash_entries(_, _, _)
cairo_dash_entries(dt, lwd, l) ==
  IF dt = 0 \/ l = NibblesPerWord THEN <<>>
  ELSE <<((dt % 16) * lwd * 72) \div 96>> \o cairo_dash_entries(dt \div 16, lwd, l + 1)

\* scale_lty: ((lwd > 1) ? lwd : 1) * (lty & 15)
scale_lty(lty, lwd) == (IF lwd > D(1) THEN lwd ELSE D(1)) * (lty % 16)

\* css_lineinfo / att_lineinfo: for (i = 1; i < 8 && lty & 15; i++) ..., lty >> 4
RECURSIVE svg_dash_rest(_, _, _)
svg_dash_rest(lty, lwd, i) ==
  IF i < NibblesPerWord /\ lty % 16 # 0
  THEN <<Fmt2(scale_lty(lty, lwd))>> \o svg_dash_rest(lty \div 16, lwd, i + 1)
  ELSE <<>>

\* the stroke-dasharray list: the first number, then the remaining ones
svg_dash_entries(lty, lwd) ==
  <<Fmt2(scale_lty(lty, lwd))>> \o svg_dash_rest(lty \div 16, lwd, 1)

(***************************************************************************)
(* Raster backend (renderer_cairo.cpp): the painter calls it makes         *)
(***************************************************************************)
\* set_color: cairo_set_source_rgb for an opaque color, _rgba otherwise
set_color(col) ==
  IF alpha(col) = byte_mask
  THEN <<Tok("set_source_rgb", <<red(col), green(col), blue(col)>>)>>
  ELSE <<Tok("set_source_rgba", <<red(col), green(col), blue(col), alpha(col)>>)>>

\* set_linetype: width floor, cap, join, miter limit, dashes
set_linetype(line) ==
  << Tok("set_line_width", <<((IF line.lwd > 10 THEN line.lwd ELSE 10) * 72) \div 96>>),
     Tok("set_line_cap", <<IF line.lend \in {GC_ROUND_CAP, GC_BUTT_CAP} THEN line.lend
                           ELSE GC_SQUARE_CAP>>),
     Tok("set_line_join", <<IF line.ljoin \in {GC_MITRE_JOIN, GC_BEVEL_JOIN} THEN line.ljoin
                            ELSE GC_ROUND_JOIN>>),
     Tok("set_miter_limit", <<line.lmitre>>),
     Tok("set_dash",
         IF line.lty = LTY_BLANK \/ line.lty = LTY_SOLID THEN <<>>
         ELSE cairo_dash_entries(line.lty,
                                 IF line.lwd > D(1) THEN line.lwd ELSE D(1), 0)) >>

\* the fill step of a closed shape: skipped for a transparent fill
cairo_fill_step(fill) ==
  IF ~transparent(fill)
  THEN set_color(fill) \o <<Tok("fill_preserve", <<>>)>>
  ELSE <<>>

\* the stroke step without its test for the blank line type
cairo_stroke_step_unless_transparent(line) ==
  IF ~transparent(line.col)
  THEN set_linetype(line) \o set_color(line.col) \o <<Tok("stroke", <<>>)>>
  ELSE <<>>

\* the stroke step of a closed shape: skipped for a transparent or blank line
cairo_stroke_step(line) ==
  IF ~transparent(line.col) /\ line.lty # LTY_BLANK
  THEN set_linetype(line) \o set_color(line.col) \o <<Tok("stroke", <<>>)>>
  ELSE <<>>

\* move_to the first point, line_to every later one
cairo_points(points) ==
  [i \in 1..Len(points) |->
     Tok(IF i = 1 THEN "move_to" ELSE "line_to", <<points[i][1], points[i][2]>>)]

\* RendererCairo::visit(const Path *): one sub-path per nper entry, closed
\* when its last vertex has been added.  left is a std::size_t: an nper entry
\* of 0 wraps it to the largest value, which no point count brings back to 0;
\* the negative value stands for it.
RECURSIVE cairo_path_loop(_, _, _)
cairo_path_loop(points, nper, left) ==
  IF points = <<>> THEN <<>>
  ELSE IF left = 0
  THEN <<Tok("move_to", <<Head(points)[1], Head(points)[2]>>)>>
         \o cairo_path_loop(Tail(points), Tail(nper), Head(nper) - 1)
  ELSE <<Tok("line_to", <<Head(points)[1], Head(points)[2]>>)>>
         \o (IF left - 1 = 0 THEN <<Tok("close_path", <<>>)>> ELSE <<>>)
         \o cairo_path_loop(Tail(points), nper, left - 1)

\* the conversion without the scaling by alpha
cairo_pixel_unscaled(col) == << blue(col), green(col), red(col), alpha(col) >>

\* RendererCairo::visit(const Raster *): one ARGB pixel per packed color,
\* stored blue, green, red, alpha; channels scaled by alpha when alpha < 255
cairo_pixel(col) ==
  IF alpha(col) < byte_mask
  THEN << (blue(col) * alpha(col)) \div byte_mask, (green(col) * alpha(col)) \div byte_mask,
          (red(col) * alpha(col)) \div byte_mask, alpha(col) >>
  ELSE << blue(col), green(col), red(col), alpha(col) >>

cairo_image_data(raster) == [i \in 1..Len(raster) |-> cairo_pixel(raster[i])]

\* RendererCairo::visit, all eight overloads
cairo_visit(dc) ==
  CASE dc.type = "rect" ->
         <<Tok("new_path", <<>>), Tok("rectangle", dc.rect)>>
           \o cairo_fill_step(dc.fill) \o cairo_stroke_step(dc.line)
    [] dc.type = "text" ->
         IF transparent(dc.col) THEN <<>>
         ELSE <<Tok("save", <<>>),
                Tok("select_font_face", <<dc.font_family, dc.italic, dc.weight >= 700>>),
                Tok("set_font_size", <<dc.fontsize>>),
                Tok("move_to", <<dc.rect[1], dc.rect[2]>>)>>
              \o (IF dc.rot # 0 THEN <<Tok("rotate", <<-dc.rot>>)>> ELSE <<>>)
              \o (IF dc.hadj # 0 THEN <<Tok("rel_move_to", <<-dc.hadj>>)>> ELSE <<>>)
              \o set_color(dc.col)
              \o <<Tok("show_text", dc.str), Tok("restore", <<>>)>>
    [] dc.type = "circle" ->
         <<Tok("new_path", <<>>),
           Tok("arc", <<dc.rect[1], dc.rect[2],
                        IF dc.radius > 500 THEN dc.radius ELSE 500>>)>>
           \o cairo_fill_step(dc.fill) \o cairo_stroke_step(dc.line)
    [] dc.type = "line" ->
         IF transparent(dc.line.col) THEN <<>>
         ELSE <<Tok("new_path", <<>>)>> \o set_color(dc.line.col) \o set_linetype(dc.line)
              \o cairo_points(dc.points) \o <<Tok("stroke", <<>>)>>
    [] dc.type = "polyline" ->
         IF transparent(dc.line.col) THEN <<>>
         ELSE <<Tok("new_path", <<>>)>> \o set_color(dc.line.col) \o set_linetype(dc.line)
              \o cairo_points(dc.points) \o <<Tok("stroke", <<>>)>>
    [] dc.type = "polygon" ->
         <<Tok("new_path", <<>>)>> \o cairo_points(dc.points) \o <<Tok("close_path", <<>>)>>
           \o cairo_fill_step(dc.fill) \o cairo_stroke_step(dc.line)
    [] dc.type = "path" ->
         <<Tok("new_path", <<>>)>> \o cairo_path_loop(dc.points, dc.nper, 0)
           \o cairo_fill_step(dc.fill) \o cairo_stroke_step(dc.line)
    [] dc.type = "raster" ->
         <<Tok("save", <<>>), Tok("translate", <<dc.rect[1], dc.rect[2]>>),
           Tok("rotate", <<-dc.rot>>), Tok("scale", <<dc.rect[3], dc.wh[1], dc.rect[4], dc.wh[2]>>),
           Tok("set_source_surface", cairo_image_data(dc.raster)),
           Tok("set_filter", <<IF dc.interpolate THEN 1 ELSE 0>>),
           Tok("new_path", <<>>), Tok("rectangle", <<0, 0, dc.wh[1], dc.wh[2]>>),
           Tok("clip", <<>>), Tok("paint", <<>>), Tok("restore", <<>>)>>

(***************************************************************************)
(* SVG backends (renderer_svg.cpp): style-sheet mode writes css inside a   *)
(* style attribute, portable mode writes one attribute per property        *)
(***************************************************************************)
\* write_xml_escaped: the five reserved characters become entities
\* the switch without its case for the apostrophe
xml_escape_char_four(c) ==
  CASE c = "&" -> <<"&", "a", "m", "p", ";">>
    [] c = "<" -> <<"&", "l", "t", ";">>
    [] c = ">" -> <<"&", "g", "t", ";">>
    [] c = "\"" -> <<"&", "q", "u", "o", "t", ";">>
    [] OTHER -> <<c>>

\* the characters written for one character of the text
xml_escape_char(c) ==
  CASE c = "&" -> <<"&", "a", "m", "p", ";">>
    [] c = "<" -> <<"&", "l", "t", ";">>
    [] c = ">" -> <<"&", "g", "t", ";">>
    [] c = "\"" -> <<"&", "q", "u", "o", "t", ";">>
    [] c = "'" -> <<"&", "a", "p", "o", "s", ";">>
    [] OTHER -> <<c>>

RECURSIVE write_xml_escaped(_)
write_xml_escaped(text) ==
  IF text = <<>> THEN <<>>
  ELSE xml_escape_char(Head(text)) \o write_xml_escaped(Tail(text))

\* the color and, for a partly transparent one, the opacity
svg_paint(prop, col) ==
  <<Tok(prop, <<red(col), green(col), blue(col)>>)>>
    \o (IF alpha(col) # byte_mask
        THEN <<Tok(prop \o "-opacity", <<byte_frac2(alpha(col))>>)>> ELSE <<>>)

\* css_fill_or_none: "fill: none;" for a transparent color
css_fill_or_none(col) ==
  IF alpha(col) = 0 THEN <<Tok("fill-none", <<>>)>> ELSE svg_paint("fill", col)

\* css_fill_or_omit: nothing for a transparent color
css_fill_or_omit(col) ==
  IF alpha(col) # 0 THEN svg_paint("fill", col) ELSE <<>>

\* the points list of polyline and polygon, each coordinate "{:.2f}"
svg_points(points) == [i \in 1..Len(points) |-> <<Fmt2(points[i][1]), Fmt2(points[i][2])>>]

Fmt2All(xs) == [i \in 1..Len(xs) |-> Fmt2(xs[i])]

\* css_lineinfo: width, then only what differs from the style sheet's defaults
css_lineinfo(line) ==
  <<Tok("stroke-width", <<Fmt2Of(line.lwd * 72, 96)>>)>>
    \o (IF line.col # rgba(0, 0, 0, 255)
        THEN IF alpha(line.col) = 0 THEN <<Tok("stroke-none", <<>>)>>
             ELSE svg_paint("stroke", line.col)
        ELSE <<>>)
    \o (IF line.lty = LTY_BLANK \/ line.lty = LTY_SOLID THEN <<>>
        ELSE <<Tok("stroke-dasharray", svg_dash_entries(line.lty, line.lwd))>>)
    \o (IF line.lend \in {GC_BUTT_CAP, GC_SQUARE_CAP}
        THEN <<Tok("stroke-linecap", <<line.lend>>)>> ELSE <<>>)
    \o (CASE line.ljoin = GC_BEVEL_JOIN -> <<Tok("stroke-linejoin", <<line.ljoin>>)>>
          [] line.ljoin = GC_MITRE_JOIN ->
               <<Tok("stroke-linejoin", <<line.ljoin>>)>>
                 \o (IF line.lmitre - D(10) > 1 \/ D(10) - line.lmitre > 1
                     THEN <<Tok("stroke-miterlimit", <<Fmt2(line.lmitre)>>)>> ELSE <<>>)
          [] OTHER -> <<>>)

\* the d attribute of a path: M for the first vertex of a sub-path, L for the
\* others, Z when the sub-path's last vertex has been written; left as in the
\* raster backend's loop
RECURSIVE svg_path_loop(_, _, _)
svg_path_loop(points, nper, left) ==
  IF points = <<>> THEN <<>>
  ELSE IF left = 0
  THEN <<Tok("M", <<Fmt2(Head(points)[1]), Fmt2(Head(points)[2])>>)>>
         \o svg_path_loop(Tail(points), Tail(nper), Head(nper) - 1)
  ELSE <<Tok("L", <<Fmt2(Head(points)[1]), Fmt2(Head(points)[2])>>)>>
         \o (IF left - 1 = 0 THEN <<Tok("Z", <<>>)>> ELSE <<>>)
         \o svg_path_loop(Tail(points), nper, left - 1)

\* position, anchor and font of a text element, common to both modes
svg_text_head(dc) ==
  (IF dc.rot = 0 THEN <<Tok("xy", <<Fmt2(dc.rect[1]), Fmt2(dc.rect[2])>>)>>
   ELSE <<Tok("transform", <<Fmt2(dc.rect[1]), Fmt2(dc.rect[2]), Fmt2(-dc.rot)>>)>>)
    \o (CASE dc.hadj = 500 -> <<Tok("text-anchor", <<"middle">>)>>
          [] dc.hadj = D(1) -> <<Tok("text-anchor", <<"end">>)>>
          [] OTHER -> <<>>)
    \o <<Tok("font-family", <<dc.font_family>>), Tok("font-size", <<Fmt2(dc.fontsize)>>)>>
    \o (IF dc.weight # 400
        THEN IF dc.weight = 700 THEN <<Tok("font-weight-bold", <<>>)>>
             ELSE <<Tok("font-weight", <<dc.weight>>)>>
        ELSE <<>>)
    \o (IF dc.italic THEN <<Tok("font-style", <<"italic">>)>> ELSE <<>>)

svg_text_tail(dc) ==
  (IF Len(dc.features) > 0 THEN <<Tok("font-feature-settings", <<dc.features>>)>> ELSE <<>>)
    \o (IF dc.txtwidth_px > 0 THEN <<Tok("textLength", <<Fmt2(dc.txtwidth_px)>>)>> ELSE <<>>)
    \o <<Tok("chars", write_xml_escaped(dc.str)), Tok("/text", <<>>), Tok("/g", <<>>)>>

\* the image element of a Raster, common to both modes
svg_image(dc) ==
  <<Tok("g", <<>>), Tok("image", Fmt2All(dc.rect))>>
    \o (IF ~dc.interpolate THEN <<Tok("image-rendering", <<"pixelated">>)>> ELSE <<>>)
    \o (IF dc.rot # 0
        THEN <<Tok("transform", <<Fmt2(-dc.rot), Fmt2(dc.rect[1]), Fmt2(dc.rect[2])>>)>>
        ELSE <<>>)
    \o <<Tok("href-png-base64", dc.raster), Tok("/image", <<>>), Tok("/g", <<>>)>>

\* RendererSVG::visit, all eight overloads
svg_visit(dc) ==
  CASE dc.type = "rect" ->
         <<Tok("rect", Fmt2All(dc.rect))>>
           \o css_lineinfo(dc.line) \o css_fill_or_omit(dc.fill) \o <<Tok("/>", <<>>)>>
    [] dc.type = "text" ->
         <<Tok("g", <<>>), Tok("text", <<>>)>> \o svg_text_head(dc)
           \o (IF dc.col # rgb(0, 0, 0) THEN css_fill_or_none(dc.col) ELSE <<>>)
           \o svg_text_tail(dc)
    [] dc.type = "circle" ->
         <<Tok("circle", <<Fmt2(dc.rect[1]), Fmt2(dc.rect[2]), Fmt2(dc.radius)>>)>>
           \o css_lineinfo(dc.line) \o css_fill_or_omit(dc.fill) \o <<Tok("/>", <<>>)>>
    [] dc.type = "line" ->
         <<Tok("line", svg_points(dc.points))>>
           \o css_lineinfo(dc.line) \o <<Tok("/>", <<>>)>>
    [] dc.type = "polyline" ->
         <<Tok("polyline", svg_points(dc.points))>>
           \o css_lineinfo(dc.line) \o <<Tok("/>", <<>>)>>
    [] dc.type = "polygon" ->
         <<Tok("polygon", svg_points(dc.points))>>
           \o css_lineinfo(dc.line) \o css_fill_or_omit(dc.fill) \o <<Tok("/>", <<>>)>>
    [] dc.type = "path" ->
         <<Tok("path", <<>>)>> \o svg_path_loop(dc.points, dc.nper, 0)
           \o css_lineinfo(dc.line) \o css_fill_or_omit(dc.fill)
           \o <<Tok("fill-rule", <<IF dc.winding THEN "nonzero" ELSE "evenodd">>),
                Tok("/>", <<>>)>>
    [] dc.type = "raster" -> svg_image(dc)

\* att_fill_or_none: fill="none" for a transparent color
att_fill_or_none(col) ==
  IF alpha(col) = 0 THEN <<Tok("fill-none", <<>>)>> ELSE svg_paint("fill", col)

\* att_lineinfo: width, stroke unless transparent, dashes, cap and join
\* unless they are SVG's own defaults
att_lineinfo(line) ==
  <<Tok("stroke-width", <<Fmt2Of(line.lwd * 72, 96)>>)>>
    \o (IF alpha(line.col) # 0 THEN svg_paint("stroke", line.col) ELSE <<>>)
    \o (IF line.lty = LTY_BLANK \/ line.lty = LTY_SOLID THEN <<>>
        ELSE <<Tok("stroke-dasharray", svg_dash_entries(line.lty, line.lwd))>>)
    \o (IF line.lend \in {GC_ROUND_CAP, GC_SQUARE_CAP}
        THEN <<Tok("stroke-linecap", <<line.lend>>)>> ELSE <<>>)
    \o (CASE line.ljoin \in {GC_ROUND_JOIN, GC_BEVEL_JOIN} ->
               <<Tok("stroke-linejoin", <<line.ljoin>>)>>
          [] line.ljoin = GC_MITRE_JOIN ->
               IF line.lmitre - D(4) > 1 \/ D(4) - line.lmitre > 1
               THEN <<Tok("stroke-miterlimit", <<Fmt2(line.lmitre)>>)>> ELSE <<>>
          [] OTHER -> <<>>)

\* RendererSVGPortable::visit, all eight overloads
svgp_visit(dc) ==
  CASE dc.type = "rect" ->
         <<Tok("rect", Fmt2All(dc.rect))>>
           \o att_lineinfo(dc.line) \o att_fill_or_none(dc.fill) \o <<Tok("/>", <<>>)>>
    [] dc.type = "text" ->
         <<Tok("g", <<>>), Tok("text", <<>>)>> \o svg_text_head(dc)
           \o (IF dc.col # rgb(0, 0, 0) THEN att_fill_or_none(dc.col) ELSE <<>>)
           \o svg_text_tail(dc)
    [] dc.type = "circle" ->
         <<Tok("circle", <<Fmt2(dc.rect[1]), Fmt2(dc.rect[2]), Fmt2(dc.radius)>>)>>
           \o att_lineinfo(dc.line) \o att_fill_or_none(dc.fill) \o <<Tok("/>", <<>>)>>
    [] dc.type = "line" ->
         <<Tok("line", svg_points(dc.points))>>
           \o att_lineinfo(dc.line) \o <<Tok("/>", <<>>)>>
    [] dc.type = "polyline" ->
         <<Tok("polyline", svg_points(dc.points)), Tok("fill-none", <<>>)>>
           \o att_lineinfo(dc.line) \o <<Tok("/>", <<>>)>>
    [] dc.type = "polygon" ->
         <<Tok("polygon", svg_points(dc.points))>>
           \o att_lineinfo(dc.line) \o att_fill_or_none(dc.fill) \o <<Tok("/>", <<>>)>>
    [] dc.type = "path" ->
         <<Tok("path", <<>>)>> \o svg_path_loop(dc.points, dc.nper, 0)
           \o att_lineinfo(dc.line) \o att_fill_or_none(dc.fill)
           \o <<Tok("fill-rule", <<IF dc.winding THEN "nonzero" ELSE "evenodd">>),
                Tok("/>", <<>>)>>
    [] dc.type = "raster" -> svg_image(dc)

(***************************************************************************)
(* JSON backend (renderer_json.cpp)                                        *)
(***************************************************************************)
\* hexcol: "#RRGGBB"; the alpha channel is not part of it
hexcol(col) == <<red(col), green(col), blue(col)>>

\* json_lineinfo: col, lwd, lty, lend, ljoin, lmitre (cast to int)
json_lineinfo(line) ==
  <<Tok("line", hexcol(line.col)
                  \o <<Fmt2(line.lwd), line.lty, line.lend, line.ljoin, ToInt(line.lmitre)>>)>>

\* json_verts: every vertex as [ x, y ]
json_verts(points) == <<Tok("points", svg_points(points))>>

\* RendererJSON::visit, all eight overloads
json_visit(dc) ==
  CASE dc.type = "rect" ->
         <<Tok("rect", <<dc.clip_id>> \o Fmt2All(dc.rect))>> \o json_lineinfo(dc.line)
    [] dc.type = "text" ->
         <<Tok("text", <<dc.clip_id, Fmt2(dc.rect[1]), Fmt2(dc.rect[2]), Fmt2(dc.rot),
                         Fmt2(dc.hadj)>>),
           Tok("col", hexcol(dc.col)), Tok("str", dc.str),
           Tok("font", <<dc.weight, Fmt2(dc.fontsize), Fmt2(dc.txtwidth_px)>>),
           Tok("font-names", <<dc.features, dc.font_family>>),
           Tok("italic", <<dc.italic>>)>>
    [] dc.type = "circle" ->
         <<Tok("circle", <<dc.clip_id, Fmt2(dc.rect[1]), Fmt2(dc.rect[2]), Fmt2(dc.radius)>>),
           Tok("fill", hexcol(dc.fill))>> \o json_lineinfo(dc.line)
    [] dc.type = "line" ->
         <<Tok("line-shape", <<dc.clip_id>>), Tok("ends", svg_points(dc.points))>>
           \o json_lineinfo(dc.line)
    [] dc.type = "polyline" ->
         <<Tok("polyline", <<dc.clip_id>>)>> \o json_lineinfo(dc.line) \o json_verts(dc.points)
    [] dc.type = "polygon" ->
         <<Tok("polygon", <<dc.clip_id>>), Tok("fill", hexcol(dc.fill))>>
           \o json_lineinfo(dc.line) \o json_verts(dc.points)
    [] dc.type = "path" ->
         <<Tok("path", <<dc.clip_id>>), Tok("fill", hexcol(dc.fill))>>
           \o json_lineinfo(dc.line) \o <<Tok("nper", dc.nper)>> \o json_verts(dc.points)
    [] dc.type = "raster" ->
         <<Tok("raster", <<dc.clip_id>> \o Fmt2All(dc.rect) \o <<Fmt2(dc.rot)>>),
           Tok("raster-wh", dc.wh), Tok("data-png-base64", dc.raster)>>

(***************************************************************************)
(* Clip-aware page dispatchers.  Each backend's page routine is split at   *)
(* the iterations of its loop over t_page.dcs: a begin step (everything    *)
(* before the loop), one step per draw call, an end step.                  *)
(***************************************************************************)
Backends == {"cairo", "svg", "svgp", "json"}

\* the draw calls of a page batched by clip, clips in the order of t_page.cps
RECURSIVE dcs_by_clip(_, _)
dcs_by_clip(pg, j) ==
  IF j > Len(pg.cps) THEN <<>>
  ELSE SelectSeq(pg.dcs, LAMBDA dc : dc.clip_id = pg.cps[j].id) \o dcs_by_clip(pg, j + 1)

\* a loop that walks the draw calls clip by clip
next_dc_by_clip(pg, n) == dcs_by_clip(pg, 1)[n + 1]

\* for (const auto &dc : t_page.dcs): the draw call after n handled ones
next_dc(pg, n) == pg.dcs[n + 1]

\* what the handler of draw call dc emitted
Visit(dc, out) == [seq |-> dc.seq, out |-> out]

\* std::find_if over t_page.cps: the clips with that id, first match first
clips_with_id(cps, id) == SelectSeq(cps, LAMBDA cp : cp.id = id)

\* what dereferencing cps.end() may read: some Clip-sized value
StrayClips == {NoClip}

clip_rect(cp) == <<cp.x, cp.y, cp.width, cp.height>>

\* ---- raster backend --------------------------------------------------------
\* cairo_image_surface_create(format, int width, int height) called with
\* t_page.size * t_scale: the doubles are converted to int
image_surface_size == <<ToInt((page.w * m_scale) \div 1000), ToInt((page.h * m_scale) \div 1000)>>

\* RendererCairoPng::render up to render_page, then RendererCairo::render_page
\* up to the loop: the surface, the scale transform, the background unless
\* transparent, then the first clip
RendererCairo_render_page_begin ==
  /\ ppc = "start" /\ backend = "cairo"
  /\ os' = <<Tok("image_surface", image_surface_size), Tok("scale", <<m_scale, m_scale>>)>>
           \o (IF ~transparent(page.fill)
            THEN <<Tok("new_path", <<>>), Tok("rectangle", <<0, 0, page.w, page.h>>)>>
                   \o set_color(page.fill) \o <<Tok("fill", <<>>)>>
            ELSE <<>>)
           \o <<Tok("new_path", <<>>), Tok("rectangle", clip_rect(Head(page.cps))),
                Tok("clip", <<>>)>>
  /\ cr_clip' = Head(page.cps)
  /\ last_id' = Head(page.cps).id
  /\ ppc' = "loop"
  /\ UNCHANGED <<page, backend, m_scale, dci, visited, m_unique_id>>
  /\ UNCHANGED other_than_page

\* one iteration of the loop of render_page.  A clip id no Clip of the page
\* carries makes find_if return cps.end(); dereferencing it either faults or
\* reads a stray value.
\* the clip change of render_page without cairo_reset_clip
cairo_next_clip_kept(next_clip) ==
  <<Tok("new_path", <<>>), Tok("rectangle", clip_rect(next_clip)), Tok("clip", <<>>)>>

\* the clip change of render_page: reset, then clip to the Clip's rectangle
cairo_next_clip(next_clip) ==
  <<Tok("reset_clip", <<>>), Tok("new_path", <<>>),
    Tok("rectangle", clip_rect(next_clip)), Tok("clip", <<>>)>>

RendererCairo_render_page_step ==
  /\ ppc = "loop" /\ backend = "cairo" /\ dci < Len(page.dcs)
  /\ LET dc == next_dc(page, dci)
         found == clips_with_id(page.cps, dc.clip_id)
     IN IF dc.clip_id = last_id
        THEN /\ os' = os \o cairo_visit(dc)
             /\ visited' = Append(visited, Visit(dc, cairo_visit(dc)))
             /\ dci' = dci + 1
             /\ UNCHANGED <<ppc, last_id, cr_clip>>
        ELSE \E next_clip \in (IF found # <<>> THEN {Head(found)} ELSE StrayClips),
                faults \in (IF found # <<>> THEN {FALSE} ELSE BOOLEAN) :
               IF faults
               THEN /\ ppc' = "fault"
                    /\ UNCHANGED <<os, visited, dci, last_id, cr_clip>>
               ELSE /\ os' = os \o cairo_next_clip(next_clip) \o cairo_visit(dc)
                    /\ cr_clip' = next_clip
                    /\ last_id' = next_clip.id
                    /\ visited' = Append(visited, Visit(dc, cairo_visit(dc)))
                    /\ dci' = dci + 1
                    /\ UNCHANGED ppc
  /\ UNCHANGED <<page, backend, m_scale, m_unique_id>>
  /\ UNCHANGED other_than_page

RendererCairo_render_page_end ==
  /\ ppc = "loop" /\ backend = "cairo" /\ dci = Len(page.dcs)
  /\ ppc' = "done"
  /\ UNCHANGED <<page, backend, m_scale, os, last_id, dci, visited, cr_clip, m_unique_id>>
  /\ UNCHANGED other_than_page

\* ---- SVG, style-sheet mode -------------------------------------------------
\* a header that declares the page's own size whatever the scale
svg_header_unscaled ==
  <<Tok("svg", <<Fmt2(page.w), Fmt2(page.h), Fmt2(page.w), Fmt2(page.h)>>)>>

svg_header ==
  <<Tok("svg", <<Fmt2Of(page.w * m_scale, 1000), Fmt2Of(page.h * m_scale, 1000),
                 Fmt2(page.w), Fmt2(page.h)>>)>>

\* RendererSVG::page up to the loop: header, style sheet, one clipPath per
\* Clip, background, the group of the first Clip
RendererSVG_page_begin ==
  /\ ppc = "start" /\ backend = "svg"
  /\ os' = os \o svg_header \o <<Tok("style", <<>>)>>
           \o [i \in 1..Len(page.cps) |->
                 Tok("clipPath", <<page.cps[i].id>> \o Fmt2All(clip_rect(page.cps[i])))]
           \o <<Tok("background", <<>>)>> \o css_fill_or_none(page.fill)
           \o <<Tok("g-clip", <<Head(page.cps).id>>)>>
  /\ last_id' = Head(page.cps).id
  /\ ppc' = "loop"
  /\ UNCHANGED <<page, backend, m_scale, dci, visited, cr_clip, m_unique_id>>
  /\ UNCHANGED other_than_page

\* a dispatcher that closes and opens a group for every draw call
svg_group_always(dc, suffix) ==
  <<Tok("/g-clip", <<>>), Tok("g-clip", <<dc.clip_id>> \o suffix)>>

\* if (dc->clip_id != last_id): close the group, open one for the new clip
\* a group that refers to the Clip by its id alone, as the style-sheet mode
\* does, whatever the mode
svg_group_without_token(dc, suffix) ==
  IF dc.clip_id = last_id THEN <<>>
  ELSE <<Tok("/g-clip", <<>>), Tok("g-clip", <<dc.clip_id>>)>>

svg_group_on_change(dc, suffix) ==
  IF dc.clip_id # last_id
  THEN <<Tok("/g-clip", <<>>), Tok("g-clip", <<dc.clip_id>> \o suffix)>>
  ELSE <<>>

RendererSVG_page_step ==
  /\ ppc = "loop" /\ backend = "svg" /\ dci < Len(page.dcs)
  /\ LET dc == next_dc(page, dci)
     IN /\ os' = os \o svg_group_on_change(dc, <<>>) \o svg_visit(dc)
        /\ last_id' = dc.clip_id
        /\ visited' = Append(visited, Visit(dc, svg_visit(dc)))
  /\ dci' = dci + 1
  /\ UNCHANGED <<page, backend, m_scale, ppc, cr_clip, m_unique_id>>
  /\ UNCHANGED other_than_page

RendererSVG_page_end ==
  /\ ppc = "loop" /\ backend = "svg" /\ dci = Len(page.dcs)
  /\ os' = os \o <<Tok("/g-clip", <<>>), Tok("/svg", <<>>)>>
  /\ ppc' = "done"
  /\ UNCHANGED <<page, backend, m_scale, last_id, dci, visited, cr_clip, m_unique_id>>
  /\ UNCHANGED other_than_page

\* ---- SVG, portable mode ----------------------------------------------------
\* the tokens unigd::uuid::uuid() may return
Uuids == {1, 2}

\* RendererSVGPortable::render and page up to the loop: a fresh token, the
\* header, one clipPath per Clip, the background with the page's fill color,
\* the group of the first Clip
RendererSVGPortable_page_begin ==
  /\ ppc = "start" /\ backend = "svgp"
  /\ \E uuid \in Uuids :
       /\ m_unique_id' = uuid
       /\ os' = os \o svg_header
                \o [i \in 1..Len(page.cps) |->
                      Tok("clipPath", <<page.cps[i].id, uuid>>
                                        \o Fmt2All(clip_rect(page.cps[i])))]
                \o <<Tok("background", <<>>),
                     Tok("fill", <<red(page.fill), green(page.fill), blue(page.fill)>>),
                     Tok("g-clip", <<Head(page.cps).id, uuid>>)>>
  /\ last_id' = Head(page.cps).id
  /\ ppc' = "loop"
  /\ UNCHANGED <<page, backend, m_scale, dci, visited, cr_clip>>
  /\ UNCHANGED other_than_page

RendererSVGPortable_page_step ==
  /\ ppc = "loop" /\ backend = "svgp" /\ dci < Len(page.dcs)
  /\ LET dc == next_dc(page, dci)
     IN /\ os' = os \o svg_group_on_change(dc, <<m_unique_id>>) \o svgp_visit(dc)
        /\ last_id' = dc.clip_id
        /\ visited' = Append(visited, Visit(dc, svgp_visit(dc)))
  /\ dci' = dci + 1
  /\ UNCHANGED <<page, backend, m_scale, ppc, cr_clip, m_unique_id>>
  /\ UNCHANGED other_than_page

RendererSVGPortable_page_end ==
  /\ ppc = "loop" /\ backend = "svgp" /\ dci = Len(page.dcs)
  /\ os' = os \o <<Tok("/g-clip", <<>>), Tok("/svg", <<>>)>>
  /\ ppc' = "done"
  /\ UNCHANGED <<page, backend, m_scale, last_id, dci, visited, cr_clip, m_unique_id>>
  /\ UNCHANGED other_than_page

\* ---- JSON ------------------------------------------------------------------
\* RendererJSON::page up to the loop: page record, then the clips array
RendererJSON_page_begin ==
  /\ ppc = "start" /\ backend = "json"
  /\ os' = os \o <<Tok("page", <<page.id, Fmt2(page.w), Fmt2(page.h), Fmt2(m_scale)>>),
             Tok("fill", hexcol(page.fill))>>
           \o [i \in 1..Len(page.cps) |->
                 Tok("clip", <<page.cps[i].id>> \o Fmt2All(clip_rect(page.cps[i])))]
  /\ ppc' = "loop"
  /\ UNCHANGED <<page, backend, m_scale, last_id, dci, visited, cr_clip, m_unique_id>>
  /\ UNCHANGED other_than_page

\* one element of the draw_calls array; the clip id is a field of the record
RendererJSON_page_step ==
  /\ ppc = "loop" /\ backend = "json" /\ dci < Len(page.dcs)
  /\ LET dc == next_dc(page, dci)
     IN /\ os' = os \o <<Tok("{", <<>>)>> \o json_visit(dc) \o <<Tok("}", <<>>)>>
        /\ visited' = Append(visited, Visit(dc, json_visit(dc)))
  /\ dci' = dci + 1
  /\ UNCHANGED <<page, backend, m_scale, ppc, last_id, cr_clip, m_unique_id>>
  /\ UNCHANGED other_than_page

RendererJSON_page_end ==
  /\ ppc = "loop" /\ backend = "json" /\ dci = Len(page.dcs)
  /\ os' = os \o <<Tok("/page", <<>>)>>
  /\ ppc' = "done"
  /\ UNCHANGED <<page, backend, m_scale, last_id, dci, visited, cr_clip, m_unique_id>>
  /\ UNCHANGED other_than_page

PageNext ==
  \/ RendererCairo_render_page_begin
  \/ RendererCairo_render_page_step
  \/ RendererCairo_render_page_end
  \/ RendererSVG_page_begin
  \/ RendererSVG_page_step
  \/ RendererSVG_page_end
  \/ RendererSVGPortable_page_begin
  \/ RendererSVGPortable_page_step
  \/ RendererSVGPortable_page_end
  \/ RendererJSON_page_begin
  \/ RendererJSON_page_step
  \/ RendererJSON_page_end

(***************************************************************************)
(* Pages.  A Page has at least one Clip, clip ids are unique within it and *)
(* every draw call's clip_id is the id of one of its Clips (spec section   *)
(* 3); the first Clip equals the page bounds.                              *)
(***************************************************************************)
PageW == D(100)
PageH == D(80)

Clip(id, first) ==
  IF first THEN [id |-> id, x |-> 0, y |-> 0, width |-> PageW, height |-> PageH]
  ELSE [id |-> id, x |-> D(id + 1), y |-> D(2), width |-> D(50), height |-> D(40)]

\* the clip id lists of the pages: in id order, and not
ClipIdLists == {<<0>>, <<0, 1>>, <<0, 1, 2>>, <<1, 2, 0>>}

Clips(ids) == [i \in 1..Len(ids) |-> Clip(ids[i], i = 1)]

LineOf(col, lty, lwd, lend, ljoin, lmitre) ==
  [col |-> col, lwd |-> lwd, lty |-> lty, lend |-> lend, ljoin |-> ljoin,
   lmitre |-> lmitre]

\* the default pen: black, solid, one unit wide, round cap and join
SolidBlack == LineOf(rgb(0, 0, 0), LTY_SOLID, D(1), GC_ROUND_CAP, GC_ROUND_JOIN, D(10))

\* a draw call of the given variant with the given fill, text color and pen;
\* the fields a variant does not have are never read by its handlers
Shape(kind, fill, col, line) ==
  [type |-> kind, seq |-> 0, clip_id |-> 0,
   rect |-> <<D(10), D(20), D(30), D(40)>>,
   fill |-> fill, col |-> col, line |-> line,
   radius |-> 2500, rot |-> IF kind = "text" THEN D(90) ELSE 0, hadj |-> 500,
   str |-> <<"a", "&", "\"", "<">>, font_family |-> "sans", features |-> "",
   weight |-> 700, fontsize |-> D(12), italic |-> FALSE, txtwidth_px |-> D(20),
   points |-> IF kind = "line" THEN <<<<0, 0>>, <<D(5), D(5)>>>>
              ELSE <<<<0, 0>>, <<D(5), 0>>, <<D(5), D(5)>>, <<0, D(5)>>>>,
   nper |-> <<2, 2>>, winding |-> TRUE,
   wh |-> <<2, 1>>, raster |-> <<rgba(255, 0, 0, 255), rgba(0, 255, 0, 128)>>,
   interpolate |-> FALSE]

KindList == <<"rect", "text", "circle", "line", "polyline", "polygon", "path", "raster">>

\* the draw call at position i of a page: its variant rotates through KindList
\* from a starting offset, its identity is its position
DcAt(i, clip_id, offset) ==
  [Shape(KindList[((offset + i) % Len(KindList)) + 1],
         rgb(200, 10, 10), rgb(0, 0, 0), SolidBlack)
     EXCEPT !.seq = i, !.clip_id = clip_id]

PageFills == {rgba(255, 255, 255, 255), rgba(255, 255, 255, 0)}
Scales == {D(1), 1500}

\* the pages of SpecPage: up to MaxDcs draw calls over the page's clip ids
Pages ==
  {[id |-> 0, w |-> PageW, h |-> PageH, fill |-> f, cps |-> Clips(ids),
    dcs |-> [i \in 1..Len(cl) |-> DcAt(i, cl[i], offset)]] :
     f \in PageFills, ids \in ClipIdLists, offset \in {0, 3, 5},
     cl \in SeqsUpTo({0, 1, 2}, MaxDcs)}

ValidPage(pg) ==
  /\ pg.cps # <<>>
  /\ \A i \in 1..Len(pg.dcs) : \E j \in 1..Len(pg.cps) : pg.cps[j].id = pg.dcs[i].clip_id

PageStart ==
  /\ backend \in Backends
  /\ m_scale \in Scales
  /\ ppc = "start"
  /\ os = <<>>
  /\ last_id = -1
  /\ dci = 0
  /\ visited = <<>>
  /\ cr_clip = NoClip
  /\ m_unique_id = 0
  /\ prev = NoPrev

PageInit ==
  /\ HistIdle /\ m_items = [i \in Index |-> NoSnap]
  /\ ReqIdle
  /\ ThreadIdle
  /\ LoopIdle
  /\ DashIdle
  /\ page \in {pg \in Pages : ValidPage(pg)}
  /\ PageStart

SpecPage == PageInit /\ [][PageNext]_vars

\* the one-call pages of SpecShape: every variant under every combination of
\* fill, pen color, line type and cap / join
ShapeFills == {rgba(0, 0, 0, 0), rgba(255, 0, 0, 0), rgba(255, 0, 0, 255), rgba(0, 0, 255, 128)}
ShapeCols == {rgba(0, 0, 0, 255), rgba(0, 0, 0, 0), rgba(0, 128, 255, 64)}
ShapeLtys == {LTY_SOLID, LTY_BLANK, 68, 4865}
ShapePens ==
  {LineOf(c, lty, cj[4], cj[1], cj[2], cj[3]) :
     c \in ShapeCols, lty \in ShapeLtys,
     cj \in {<<GC_ROUND_CAP, GC_ROUND_JOIN, D(10), D(1)>>,
             <<GC_BUTT_CAP, GC_MITRE_JOIN, D(4), D(2)>>,
             <<GC_SQUARE_CAP, GC_BEVEL_JOIN, 2500, 500>>}}

ShapePages ==
  {[id |-> 0, w |-> PageW, h |-> PageH, fill |-> rgba(255, 255, 255, 255),
    cps |-> Clips(<<0>>),
    dcs |-> <<[Shape(k, f, ln.col, ln) EXCEPT !.seq = 1]>>] :
     k \in Kinds, f \in ShapeFills, ln \in ShapePens}

ShapeInit ==
  /\ HistIdle /\ m_items = [i \in Index |-> NoSnap]
  /\ ReqIdle
  /\ ThreadIdle
  /\ LoopIdle
  /\ DashIdle
  /\ page \in ShapePages
  /\ PageStart

SpecShape == ShapeInit /\ [][PageNext]_vars

(***************************************************************************)
(* One-Path pages: every nper list of up to MaxSubPaths entries, each at   *)
(* most MaxNper, with as many points as the entries sum to.                *)
(***************************************************************************)
MaxSubPaths == 2
MaxNper == 4

RECURSIVE SumSeq(_)
SumSeq(s) == IF s = <<>> THEN 0 ELSE Head(s) + SumSeq(Tail(s))

NperLists == SeqsUpTo(0..MaxNper, MaxSubPaths) \cup {<<4, 3>>, <<2, 2, 2>>}

PathPoint(i) == <<D(i), D(2 * i)>>

PathOf(nper, fill, winding) ==
  [Shape("path", fill, rgb(0, 0, 0), SolidBlack)
     EXCEPT !.seq = 1, !.nper = nper, !.winding = winding,
            !.points = [i \in 1..SumSeq(nper) |-> PathPoint(i)]]

PathPages ==
  {[id |-> 0, w |-> PageW, h |-> PageH, fill |-> rgba(255, 255, 255, 255),
    cps |-> Clips(<<0>>), dcs |-> <<PathOf(nper, f, wd)>>] :
     nper \in NperLists, f \in {rgba(0, 0, 0, 0), rgba(10, 20, 30, 255)}, wd \in BOOLEAN}

PathInit ==
  /\ HistIdle /\ m_items = [i \in Index |-> NoSnap]
  /\ ReqIdle
  /\ ThreadIdle
  /\ LoopIdle
  /\ DashIdle
  /\ page \in PathPages
  /\ PageStart

SpecPath == PathInit /\ [][PageNext]_vars

(***************************************************************************)
(* Dash decoding, one loop iteration at a time.  The raster backend        *)
(* copies the code to an unsigned word and shifts that; the SVG modes      *)
(* shift the signed int itself and count their iterations.                 *)
(***************************************************************************)
\* double ls[16]
DashBufferLen == 16
\* the dash codes tried: every code up to MaxDashCode, and codes with a zero
\* nibble inside, with all eight nibbles set, with the sign bit set
MaxDashCode == 40
DashCodes ==
  (LTY_BLANK..MaxDashCode)
    \cup {68, 4865, 286331153, 268435456, 2147483647, -2, -16, -2147483647}
DashWidths == {500, D(1), D(2)}
DashBackends == {"cairo", "svg", "svgp"}

\* a 32-bit unsigned word as its eight nibbles, lowest first; of a negative
\* int, the nibbles of its two's complement
Word(n) == [k \in 1..NibblesPerWord |-> (n \div (16 ^ (k - 1))) % 16]
WordZero == [k \in 1..NibblesPerWord |-> 0]

\* dt >>= 4 with the sign nibble shifted back in, as for a signed dt
shift_right_signed(w) == Tail(w) \o <<w[NibblesPerWord]>>

\* dt >>= 4 on an unsigned word
shift_right(w) == Tail(w) \o <<0>>

\* set_linetype: no dashes for a blank or solid line, the loop otherwise
set_linetype_dash_begin ==
  /\ d_pc = "start" /\ d_backend = "cairo"
  /\ IF d_lty = LTY_BLANK \/ d_lty = LTY_SOLID
     THEN d_pc' = "done" /\ d_dt' = d_dt
     ELSE d_pc' = "loop" /\ d_dt' = Word(d_lty)
  /\ d_l' = 0
  /\ d_ls' = <<>>
  /\ UNCHANGED <<d_backend, d_lty, d_lwd>>
  /\ UNCHANGED other_than_dash

\* one iteration: ls[l] = (dt & 0xF) * lwd / 96.0 * 72; dt >>= 4, l++.
\* A write at an index outside ls is undefined behaviour and ends the run.
set_linetype_dash_step ==
  /\ d_pc = "loop" /\ d_backend = "cairo" /\ d_dt # WordZero
  /\ IF d_l < DashBufferLen
     THEN /\ d_ls' = Append(d_ls, (d_dt[1] * (IF d_lwd > D(1) THEN d_lwd ELSE D(1)) * 72)
                                    \div 96)
          /\ d_dt' = shift_right(d_dt)
          /\ d_l' = d_l + 1
          /\ UNCHANGED d_pc
     ELSE /\ d_pc' = "overflow"
          /\ UNCHANGED <<d_ls, d_dt, d_l>>
  /\ UNCHANGED <<d_backend, d_lty, d_lwd>>
  /\ UNCHANGED other_than_dash

\* dt == 0: cairo_set_dash(cr, ls, l, 0)
set_linetype_dash_end ==
  /\ d_pc = "loop" /\ d_backend = "cairo" /\ d_dt = WordZero
  /\ d_pc' = "done"
  /\ UNCHANGED <<d_backend, d_lty, d_lwd, d_dt, d_l, d_ls>>
  /\ UNCHANGED other_than_dash

\* css_lineinfo / att_lineinfo: nothing for a blank or solid line; otherwise
\* the first number is written whatever it is, lty = lty >> 4, i = 1
lineinfo_dash_begin ==
  /\ d_pc = "start" /\ d_backend \in {"svg", "svgp"}
  /\ IF d_lty = LTY_BLANK \/ d_lty = LTY_SOLID
     THEN d_pc' = "done" /\ d_ls' = <<>> /\ d_dt' = d_lty
     ELSE /\ d_pc' = "loop"
          /\ d_ls' = <<Fmt2(scale_lty(d_lty, d_lwd))>>
          /\ d_dt' = d_lty \div 16
  /\ d_l' = 1
  /\ UNCHANGED <<d_backend, d_lty, d_lwd>>
  /\ UNCHANGED other_than_dash

\* for (int i = 1; i < 8 && lty & 15; i++): one more number
lineinfo_dash_step ==
  /\ d_pc = "loop" /\ d_backend \in {"svg", "svgp"}
  /\ d_l < NibblesPerWord /\ d_dt % 16 # 0
  /\ d_ls' = Append(d_ls, Fmt2(scale_lty(d_dt, d_lwd)))
  /\ d_dt' = d_dt \div 16
  /\ d_l' = d_l + 1
  /\ UNCHANGED <<d_pc, d_backend, d_lty, d_lwd>>
  /\ UNCHANGED other_than_dash

lineinfo_dash_end ==
  /\ d_pc = "loop" /\ d_backend \in {"svg", "svgp"}
  /\ ~(d_l < NibblesPerWord /\ d_dt % 16 # 0)
  /\ d_pc' = "done"
  /\ UNCHANGED <<d_backend, d_lty, d_lwd, d_dt, d_l, d_ls>>
  /\ UNCHANGED other_than_dash

DashInit ==
  /\ HistIdle /\ m_items = [i \in Index |-> NoSnap]
  /\ ReqIdle
  /\ ThreadIdle
  /\ LoopIdle
  /\ PageIdle
  /\ d_pc = "start"
  /\ d_backend \in DashBackends
  /\ d_lty \in DashCodes
  /\ d_lwd \in DashWidths
  /\ d_dt = (IF d_backend = "cairo" THEN WordZero ELSE 0)
  /\ d_l = 0
  /\ d_ls = <<>>

DashNext ==
  \/ set_linetype_dash_begin
  \/ set_linetype_dash_step
  \/ set_linetype_dash_end
  \/ lineinfo_dash_begin
  \/ lineinfo_dash_step
  \/ lineinfo_dash_end

\* each decoding runs to its end: nothing else is scheduled next to it
SpecDash == DashInit /\ [][DashNext]_vars /\ WF_vars(DashNext)

(***************************************************************************)
(* The same Page rendered twice.  unigd_render_ makes a backend instance   *)
(* with ren.generator() for every request, renders, and returns get_data   *)
(* of that instance; a second request for the same page, size and renderer *)
(* repeats this with another instance.                                     *)
(***************************************************************************)
\* an instance that was used before: its buffer holds the earlier output
used_os == os

\* the output buffer of an instance made by the generator: empty
generated_os == <<>>

\* the first request returns its buffer, and a second request for the same
\* Page, scale and backend starts with a fresh instance
unigd_render_again ==
  /\ ppc = "done" /\ ~prev.returned
  /\ prev' = [returned |-> TRUE, os |-> os, m_unique_id |-> m_unique_id]
  /\ ppc' = "start"
  /\ os' = generated_os
  /\ last_id' = -1
  /\ dci' = 0
  /\ visited' = <<>>
  /\ cr_clip' = NoClip
  /\ m_unique_id' = 0
  /\ UNCHANGED <<page, backend, m_scale>>
  /\ UNCHANGED <<vars_hist, vars_req, vars_dash, vars_thr, vars_loop>>

TwiceNext ==
  \/ PageNext
  \/ unigd_render_again

SpecTwice == PageInit /\ [][TwiceNext]_vars

(***************************************************************************)
(* Pages of several sizes, whole and fractional, at several scales         *)
(***************************************************************************)
HeaderSizes == {<<PageW, PageH>>, <<100500, 80250>>, <<33333, 20005>>}
HeaderScales == {D(1), 1500, 500}

HeaderPages ==
  {[id |-> 0, w |-> wh[1], h |-> wh[2], fill |-> f, cps |-> Clips(<<0>>),
    dcs |-> <<DcAt(1, 0, offset)>>] :
     wh \in HeaderSizes, f \in PageFills, offset \in {0, 3}}

HeaderInit ==
  /\ HistIdle /\ m_items = [i \in Index |-> NoSnap]
  /\ ReqIdle
  /\ ThreadIdle
  /\ LoopIdle
  /\ DashIdle
  /\ page \in HeaderPages
  /\ backend \in Backends
  /\ m_scale \in HeaderScales
  /\ ppc = "start"
  /\ os = <<>>
  /\ last_id = -1
  /\ dci = 0
  /\ visited = <<>>
  /\ cr_clip = NoClip
  /\ m_unique_id = 0
  /\ prev = NoPrev

SpecHeader == HeaderInit /\ [][PageNext]_vars

(***************************************************************************)
(* Work marshalled onto the owning thread.  Another thread hands a task to *)
(* r_thread; r_thread_impl pushes it on work_queue and writes one byte to  *)
(* the pipe; the host calls input_handler on the owning thread when the    *)
(* pipe is readable, and process_tasks runs every queued task there.  The  *)
(* owning thread is otherwise inside the host's event loop or inside a     *)
(* history operation, which stores in more than one step.                  *)
(***************************************************************************)
\* the entries a history operation writes
Written(m) ==
  CASE m.name \in {"put", "put_current"} -> {m.i}
    [] m.name = "put_last" -> {last_inserted(m_order)} \cap Index
    [] m.name = "remove" -> {m.i} \cap Index
    [] m.name = "clear" -> Index
    [] OTHER -> {}

TaskIndex == 0..MaxTaskIndex

Mutations ==
  {[name |-> "put", i |-> i, s |-> s] : i \in TaskIndex, s \in Snaps}
    \cup {[name |-> n, i |-> i, s |-> surface] :
            n \in {"put_current", "put_last"}, i \in TaskIndex}
    \cup {[name |-> "remove", i |-> i, s |-> NoSnap] : i \in TaskIndex}
    \cup {[name |-> "clear", i |-> 0, s |-> NoSnap]}

\* a host that calls the handler wherever the owning thread is
at_any_point(m) == TRUE

\* the host calls a handler registered with addInputHandler from its event
\* loop only, never from inside a call it made into the device
at_event_loop(m) == m = NoMut

\* r_thread / r_thread_impl: work_queue.push
r_thread_impl_push(p, i, max) ==
  /\ w_pc[p] = "idle" /\ n_tasks < max
  /\ work_queue' = Append(work_queue, [index |-> i, id |-> n_tasks + 1])
  /\ n_tasks' = n_tasks + 1
  /\ w_pc' = [w_pc EXCEPT ![p] = "notify"]
  /\ UNCHANGED <<message_fd, r_pc, mut, seen>>
  /\ UNCHANGED <<vars_hist, vars_req, vars_page, vars_dash, vars_prev, vars_loop>>

\* a write that leaves the pipe as it was
write_nothing(fd) == fd

\* write(message_fd[1], "h", 1): one more unread byte in the pipe
write_byte(fd) == fd + 1

\* read(message_fd[0], message_buf, UNIGD_PIPE_BUFFER_SIZE): what is left
empty_pipe(fd) ==
  IF fd > UNIGD_PIPE_BUFFER_SIZE THEN fd - UNIGD_PIPE_BUFFER_SIZE ELSE 0

\* a queue that hands out its newest element
try_pop_newest(q) == [task |-> q[Len(q)], rest |-> SubSeq(q, 1, Len(q) - 1)]

\* work_queue.try_pop(task) on a queue that is not empty: its oldest element
try_pop(q) == [task |-> Head(q), rest |-> Tail(q)]

\* r_thread_impl: notify_work writes one byte
notify_work(p) ==
  /\ w_pc[p] = "notify"
  /\ message_fd' = write_byte(message_fd)
  /\ w_pc' = [w_pc EXCEPT ![p] = "idle"]
  /\ UNCHANGED <<work_queue, r_pc, mut, seen, n_tasks>>
  /\ UNCHANGED <<vars_hist, vars_req, vars_page, vars_dash, vars_prev, vars_loop>>

\* the owning thread enters a history operation
history_begin(m) ==
  /\ r_pc = "loop" /\ mut = NoMut
  /\ mut' = m
  /\ UNCHANGED <<work_queue, message_fd, r_pc, w_pc, seen, n_tasks>>
  /\ UNCHANGED <<vars_hist, vars_req, vars_page, vars_dash, vars_prev, vars_loop>>

\* and leaves it with the entry stored or removed
history_end ==
  /\ r_pc = "loop" /\ mut # NoMut
  /\ m_items' = CASE mut.name \in {"put", "put_current"} -> put_items(m_items, mut.i, mut.s)
                  [] mut.name = "put_last" -> put_last_items(m_items, m_order, mut.i, mut.s)
                  [] mut.name = "remove" -> remove_items(m_items, mut.i)
                  [] mut.name = "clear" -> clear_items(m_items)
  /\ m_order' = CASE mut.name \in {"put", "put_current"} -> put_order(m_order, mut.i)
                  [] mut.name = "put_last" -> m_order
                  [] mut.name = "remove" -> SeqWithout(m_order, mut.i)
                  [] mut.name = "clear" -> <<>>
  /\ mut' = NoMut
  /\ UNCHANGED <<surface, h_op, h_ret, h_stored, h_gaps>>
  /\ UNCHANGED <<work_queue, message_fd, r_pc, w_pc, seen, n_tasks>>
  /\ UNCHANGED <<vars_req, vars_page, vars_dash, vars_prev, vars_loop>>

\* input_handler: empty_pipe reads up to UNIGD_PIPE_BUFFER_SIZE bytes
input_handler ==
  /\ r_pc = "loop" /\ message_fd > 0 /\ at_event_loop(mut)
  /\ message_fd' = empty_pipe(message_fd)
  /\ r_pc' = "process_tasks"
  /\ UNCHANGED <<work_queue, w_pc, mut, seen, n_tasks>>
  /\ UNCHANGED <<vars_hist, vars_req, vars_page, vars_dash, vars_prev, vars_loop>>

\* process_tasks: try_pop gave a task; task.call() starts the render, which
\* looks its index up in the history
process_tasks_call ==
  /\ r_pc = "process_tasks" /\ work_queue # <<>>
  /\ work_queue' = try_pop(work_queue).rest
  /\ seen' = [index |-> try_pop(work_queue).task.index,
              snap |-> item_at(m_items, try_pop(work_queue).task.index),
              torn |-> try_pop(work_queue).task.index \in Written(mut),
              ran |-> seen.ran + 1,
              order |-> Append(seen.order, try_pop(work_queue).task.id),
              ready |-> seen.ready]
  /\ r_pc' = "task"
  /\ UNCHANGED <<message_fd, w_pc, mut, n_tasks>>
  /\ UNCHANGED <<vars_hist, vars_req, vars_page, vars_dash, vars_prev, vars_loop>>

\* task.call() returns: the packaged task has made its future ready
process_tasks_called ==
  /\ r_pc = "task"
  /\ r_pc' = "process_tasks"
  /\ seen' = [seen EXCEPT !.ready = @ \cup {seen.order[Len(seen.order)]}]
  /\ UNCHANGED <<work_queue, message_fd, w_pc, mut, n_tasks>>
  /\ UNCHANGED <<vars_hist, vars_req, vars_page, vars_dash, vars_prev, vars_loop>>

\* process_tasks: try_pop found the queue empty; input_handler returns
process_tasks_return ==
  /\ r_pc = "process_tasks" /\ work_queue = <<>>
  /\ r_pc' = "loop"
  /\ UNCHANGED <<work_queue, message_fd, w_pc, mut, seen, n_tasks>>
  /\ UNCHANGED <<vars_hist, vars_req, vars_page, vars_dash, vars_prev, vars_loop>>

ThreadInit ==
  /\ m_items = [i \in Index |-> NoSnap]
  /\ HistIdle
  /\ ReqIdle
  /\ ThreadIdle
  /\ LoopIdle
  /\ PageIdle
  /\ DashIdle

ThreadNext ==
  \/ \E p \in Producers, i \in TaskIndex : r_thread_impl_push(p, i, MaxRequests)
  \/ \E p \in Producers : notify_work(p)
  \/ \E m \in Mutations : history_begin(m)
  \/ history_end
  \/ input_handler
  \/ process_tasks_call
  \/ process_tasks_called
  \/ process_tasks_return

SpecThread == ThreadInit /\ [][ThreadNext]_vars

(***************************************************************************)
(* One-Text pages over every short string of plain and reserved characters *)
(***************************************************************************)
TextChars == {"a", ";", "&", "<", ">", "\"", "'"}

TextStrings ==
  SeqsUpTo(TextChars, MaxStrLen)
    \cup {<<"&", "a", "m", "p", ";">>, <<"a", "<", "b", ">", "&", "'", "\"", "c">>}

TextPages ==
  {[id |-> 0, w |-> PageW, h |-> PageH, fill |-> rgba(255, 255, 255, 255),
    cps |-> Clips(<<0>>),
    dcs |-> <<[Shape("text", rgba(0, 0, 0, 0), rgba(0, 0, 0, 255), SolidBlack)
                 EXCEPT !.seq = 1, !.str = str]>>] :
     str \in TextStrings}

TextInit ==
  /\ HistIdle /\ m_items = [i \in Index |-> NoSnap]
  /\ ReqIdle
  /\ ThreadIdle
  /\ LoopIdle
  /\ DashIdle
  /\ page \in TextPages
  /\ PageStart

SpecText == TextInit /\ [][PageNext]_vars

(***************************************************************************)
(* Pages whose draw calls may name a clip id no Clip of the page has       *)
(***************************************************************************)
StrayPages ==
  {[id |-> 0, w |-> PageW, h |-> PageH, fill |-> rgba(255, 255, 255, 255),
    cps |-> Clips(ids),
    dcs |-> [i \in 1..Len(cl) |-> DcAt(i, cl[i], offset)]] :
     ids \in {<<0>>, <<0, 1>>}, offset \in {0, 5},
     cl \in SeqsUpTo({0, 1, 2}, MaxDcs)}

StrayInit ==
  /\ HistIdle /\ m_items = [i \in Index |-> NoSnap]
  /\ ReqIdle
  /\ ThreadIdle
  /\ LoopIdle
  /\ DashIdle
  /\ page \in StrayPages
  /\ PageStart

SpecStray == StrayInit /\ [][PageNext]_vars

(***************************************************************************)
(* The sub-path loop of the three Path handlers, one point per step, on    *)
(* Paths whose nper need not fit their points.  it_poly is dereferenced    *)
(* without a test against nper.end(): reading past the end either faults   *)
(* or yields some value.                                                   *)
(***************************************************************************)
LoopBackends == {"cairo", "svg", "svgp"}
LoopPoints == 0..(MaxNper + 2)
\* what a read past the end of nper may yield
StrayNper == {0, 1, 3}

path_token(kind, i) ==
  IF l_backend = "cairo"
  THEN Tok(CASE kind = "move" -> "move_to" [] kind = "line" -> "line_to"
             [] OTHER -> "close_path",
           IF kind = "close" THEN <<>> ELSE PathPoint(i))
  ELSE Tok(CASE kind = "move" -> "M" [] kind = "line" -> "L" [] OTHER -> "Z",
           IF kind = "close" THEN <<>> ELSE Fmt2All(PathPoint(i)))

\* left = (*it_poly) - 1 with left a std::size_t: an entry below 1 wraps
left_after(n) == IF n >= 1 THEN n - 1 ELSE -1

\* if (left == 0) with it_poly inside nper
path_loop_move ==
  /\ l_pc = "loop" /\ l_it < l_points /\ l_left = 0 /\ l_poly < Len(l_nper)
  /\ l_left' = left_after(l_nper[l_poly + 1])
  /\ l_poly' = l_poly + 1
  /\ l_it' = l_it + 1
  /\ l_out' = Append(l_out, path_token("move", l_it + 1))
  /\ UNCHANGED <<l_pc, l_backend, l_points, l_nper, l_past>>
  /\ UNCHANGED other_than_loop

\* if (left == 0) with it_poly at or past nper.end(): the read yields n
path_loop_move_past(n) ==
  /\ l_pc = "loop" /\ l_it < l_points /\ l_left = 0 /\ l_poly >= Len(l_nper)
  /\ l_past' = TRUE
  /\ l_left' = left_after(n)
  /\ l_poly' = l_poly + 1
  /\ l_it' = l_it + 1
  /\ l_out' = Append(l_out, path_token("move", l_it + 1))
  /\ UNCHANGED <<l_pc, l_backend, l_points, l_nper>>
  /\ UNCHANGED other_than_loop

\* the same read faults
path_loop_move_fault ==
  /\ l_pc = "loop" /\ l_it < l_points /\ l_left = 0 /\ l_poly >= Len(l_nper)
  /\ l_past' = TRUE
  /\ l_pc' = "fault"
  /\ UNCHANGED <<l_backend, l_points, l_nper, l_it, l_poly, l_left, l_out>>
  /\ UNCHANGED other_than_loop

\* else: --left, a line to the point, the sub-path closed when left is 0
path_loop_line ==
  /\ l_pc = "loop" /\ l_it < l_points /\ l_left # 0
  /\ l_left' = IF l_left = -1 THEN -1 ELSE l_left - 1
  /\ l_it' = l_it + 1
  /\ l_out' = Append(l_out, path_token("line", l_it + 1))
               \o (IF l_left = 1 THEN <<path_token("close", 0)>> ELSE <<>>)
  /\ UNCHANGED <<l_pc, l_backend, l_points, l_nper, l_poly, l_past>>
  /\ UNCHANGED other_than_loop

\* it == points.end(): the handler goes on to fill and stroke what it built
path_loop_end ==
  /\ l_pc = "loop" /\ l_it = l_points
  /\ l_pc' = "done"
  /\ UNCHANGED <<l_backend, l_points, l_nper, l_it, l_poly, l_left, l_out, l_past>>
  /\ UNCHANGED other_than_loop

LoopInit ==
  /\ HistIdle /\ m_items = [i \in Index |-> NoSnap]
  /\ ReqIdle
  /\ ThreadIdle
  /\ PageIdle
  /\ DashIdle
  /\ l_pc = "loop"
  /\ l_backend \in LoopBackends
  /\ l_points \in LoopPoints
  /\ l_nper \in NperLists
  /\ l_it = 0
  /\ l_poly = 0
  /\ l_left = 0
  /\ l_out = <<>>
  /\ l_past = FALSE

LoopNext ==
  \/ path_loop_move
  \/ \E n \in StrayNper : path_loop_move_past(n)
  \/ path_loop_move_fault
  \/ path_loop_line
  \/ path_loop_end

SpecLoop == LoopInit /\ [][LoopNext]_vars

(***************************************************************************)
(* Pages with one Raster whose pixel buffer varies                         *)
(***************************************************************************)
\* the longest pixel buffer tried
MaxPixels == 2

\* channel values at and next to the ends and the middle of a byte
PixelEnds == {0, 1, 128, 254, 255}
PixelAlphas == {0, 1, 127, 254, 255}
PixelColors == {rgba(r, g, b, a) : r \in PixelEnds, g \in {0, 200, 255}, b \in PixelEnds,
                                   a \in PixelAlphas}

\* every color as a buffer of one pixel, and longer buffers over three colors
PixelBuffers ==
  {<<c>> : c \in PixelColors}
    \cup (SeqsUpTo({rgba(255, 0, 1, 128), rgba(1, 2, 3, 255), rgba(9, 8, 7, 0)}, MaxPixels)
            \ {<<>>})

RasterPages ==
  {[id |-> 0, w |-> PageW, h |-> PageH, fill |-> rgba(255, 255, 255, 255),
    cps |-> Clips(<<0>>),
    dcs |-> <<[Shape("raster", rgba(0, 0, 0, 0), rgba(0, 0, 0, 255), SolidBlack)
                 EXCEPT !.seq = 1, !.raster = px, !.wh = <<Len(px), 1>>]>>] :
     px \in PixelBuffers}

RasterInit ==
  /\ HistIdle /\ m_items = [i \in Index |-> NoSnap]
  /\ ReqIdle
  /\ ThreadIdle
  /\ LoopIdle
  /\ DashIdle
  /\ page \in RasterPages
  /\ PageStart

SpecRaster == RasterInit /\ [][PageNext]_vars

(***************************************************************************)
(* Producers and the input handler alone: the owning thread is in the      *)
(* host's event loop whenever it is not inside the handler                 *)
(***************************************************************************)
\* the tasks submitted: more than one read of the pipe takes
MaxWakeTasks == 34

WakeNext ==
  \/ \E p \in Producers : r_thread_impl_push(p, 0, MaxWakeTasks)
  \/ \E p \in Producers : notify_work(p)
  \/ input_handler
  \/ process_tasks_call
  \/ process_tasks_called
  \/ process_tasks_return

\* every producer thread gets to run, so a pushed task's byte is written; the
\* host loop calls the handler when the pipe is readable; the handler and the
\* tasks it calls run to their end
SpecWake ==
  /\ ThreadInit
  /\ [][WakeNext]_vars
  /\ \A p \in Producers : WF_vars(notify_work(p))
  /\ WF_vars(input_handler)
  /\ WF_vars(process_tasks_call)
  /\ WF_vars(process_tasks_called)
  /\ WF_vars(process_tasks_return)

(***************************************************************************)
(* Claims about the history store (checked under Spec)                     *)
(***************************************************************************)
Occupied(items) == {j \in DOMAIN items : items[j] # NoSnap}
Expected(i) == IF i \in Index THEN h_stored[i] ELSE NoSnap

\* C3: after any sequence of store operations, get(i) returns the page most
\* recently stored at index i when no remove(i) or clear() happened since,
\* and reports absence otherwise; after clear() get reports absence for
\* every index, removed gaps included.
C3_GetReturnsLastPut ==
  /\ \A i \in ArgIndex : get_result(m_items, i) = Ret(Expected(i) # NoSnap, Expected(i))
  /\ h_op.name = "get" => h_ret = Ret(Expected(h_op.i) # NoSnap, Expected(h_op.i))
  /\ (h_op.name = "clear" /\ h_ret.err = "") =>
        \A i \in ArgIndex : ~get_result(m_items, i).b

\* C3 witness: a get on a removed index reports absence while another index
\* still returns its page
C3_Witness ==
  /\ h_op.name = "get"
  /\ ~h_ret.b
  /\ h_op.i \in h_gaps
  /\ \E j \in Index : j > h_op.i /\ get_result(m_items, j).b

\* C4: remove(index) returns true exactly when an entry existed at the index
\* before the call, deletes only that entry, and leaves the page at every
\* other index under its same index.
C4_RemoveOnlyThatEntry ==
  [][(h_op'.name \in {"remove", "remove_id"} /\ h_ret'.err = "") =>
       /\ h_ret'.b = (item_at(m_items, h_op'.i) # NoSnap)
       /\ item_at(m_items', h_op'.i) = NoSnap
       /\ \A j \in Index \ {h_op'.i} : m_items'[j] = m_items[j]]_vars

\* C4 witness: a remove returned true and an entry at a higher index is
\* still where it was
C4_Witness ==
  /\ h_op.name = "remove"
  /\ h_ret.b
  /\ \E j \in Index : j > h_op.i + 1 /\ m_items[j] # NoSnap /\ m_items[j] = h_stored[j]
  /\ \E j \in Index : j > h_op.i /\ m_items[j] = NoSnap

\* C5: play on an index with no entry returns false and leaves the surface
\* and the store unchanged; on a present index it returns true.
C5_PlayAbsentNoMutation ==
  [][h_op'.name = "play" =>
       /\ h_ret'.b = (item_at(m_items, h_op'.i) # NoSnap)
       /\ item_at(m_items, h_op'.i) = NoSnap =>
            (surface' = surface /\ m_items' = m_items /\ m_order' = m_order)]_vars

\* C5 witness: play has returned false on an absent index of a non-empty store
C5_Witness ==
  /\ h_op.name = "play"
  /\ ~h_ret.b
  /\ item_at(m_items, h_op.i) = NoSnap
  /\ Occupied(m_items) # {}

\* C6: putLast(index) replaces the snapshot of the most recently inserted
\* entry whatever index is passed: the occupied indices are unchanged, that
\* entry holds the new snapshot, every other entry is unchanged.
C6_PutLastOverwritesMostRecent ==
  [][h_op'.name = "put_last" =>
       /\ Occupied(m_items') = Occupied(m_items)
       /\ m_order # <<>> => m_items'[m_order[Len(m_order)]] = h_op'.s
       /\ \A j \in Index :
            (m_order = <<>> \/ j # m_order[Len(m_order)]) => m_items'[j] = m_items[j]]_vars

\* C6 witness: putLast was called with an index other than the most recent
\* entry's, the most recent entry holds the new snapshot and the entry at
\* the index passed holds another one
C6_Witness ==
  /\ h_op.name = "put_last"
  /\ m_order # <<>>
  /\ h_op.i \in Index
  /\ h_op.i # m_order[Len(m_order)]
  /\ m_items[m_order[Len(m_order)]] = h_op.s
  /\ m_items[h_op.i] \notin {NoSnap, h_op.s}


(***************************************************************************)
(* Claims about render requests (checked under SpecRender)                 *)
(***************************************************************************)
RegisteredIds == {"svg", "png", "tiff"}
RequestLive == rpc # "idle" /\ rq.devnum

\* C7: a render request with an unknown renderer id or an unknown page index
\* ends in an error and returns no buffer; an unknown renderer id is rejected
\* before any backend instance is created or any page rendered, and when the
\* page does not exist the backend's buffer is never read or returned.
C7_UnknownIdOrPageIsError ==
  /\ (RequestLive /\ rq.renderer_id \notin RegisteredIds) =>
        /\ renderer = NoInst
        /\ ~r_result.returned
        /\ rpc = "done" => r_result.err = "Not a valid renderer ID."
  /\ (RequestLive /\ rq.renderer_id \in RegisteredIds
        /\ item_at(m_items, rq.page) = NoSnap) =>
        /\ renderer.renders = 0
        /\ rpc \notin {"encode", "close", "get_data"}
        /\ ~r_result.returned
        /\ rpc = "done" => r_result.err = "Plot does not exist."

\* C7 witness: a request for an unregistered id has ended after an earlier
\* request had created a backend instance
C7_Witness ==
  /\ rpc = "done"
  /\ rq.devnum
  /\ rq.renderer_id \notin RegisteredIds
  /\ item_at(m_items, rq.page) # NoSnap
  /\ n_inst > 0
  /\ r_result.err = "Not a valid renderer ID."

\* C8: if width < 0 or height < 0 the backend is invoked with scale 1 and the
\* width and height undivided, whatever zoom was requested; otherwise with
\* width / zoom, height / zoom and scale equal to zoom.
C8_NegativeSizeForcesZoomOne ==
  renderer.renders > 0 =>
    IF rq.width < 0 \/ rq.height < 0
    THEN r_args = [width |-> rq.width, height |-> rq.height, scale |-> 1]
    ELSE /\ r_args.scale = rq.zoom
         /\ r_args.width * rq.zoom = rq.width
         /\ r_args.height * rq.zoom = rq.height

\* C8 witness: a backend was invoked for a request with a negative height, a
\* positive width and a zoom other than 1
C8_Witness ==
  /\ renderer.renders > 0
  /\ rq.height < 0
  /\ rq.width > 0
  /\ rq.zoom # 1
  /\ r_args.scale = 1

\* C9: when an encoding step of a render fails, the render call ends in an
\* explicit failure and no truncated buffer is exposed: every buffer handed
\* to the caller is the complete encoding of the page.
C9_NoPartialBuffer ==
  /\ r_result.returned => (r_result.complete /\ r_result.rows = r_result.height)
  /\ (rpc = "done" /\ renderer.failed) => r_result.err # ""

(***************************************************************************)
(* Claims about the page dispatchers (checked under SpecPage)              *)
(***************************************************************************)
SvgBackends == {"svg", "svgp"}

\* the clip ids of the clip-referencing groups opened in out, in order
ClipGroups(out) ==
  LET gs == SelectSeq(out, LAMBDA tk : tk.op = "g-clip")
  IN [i \in 1..Len(gs) |-> gs[i].a[1]]

GroupEnds(out) == Len(SelectSeq(out, LAMBDA tk : tk.op = "/g-clip"))

\* one id per contiguous run of equal ids
RECURSIVE RunIds(_)
RunIds(ids) ==
  IF Len(ids) <= 1 THEN ids
  ELSE IF ids[1] = ids[2] THEN RunIds(Tail(ids))
       ELSE <<ids[1]>> \o RunIds(Tail(ids))

DcClipIds(n) == [i \in 1..n |-> page.dcs[i].clip_id]

\* C1 as stated: a finished SVG document of either mode has exactly one
\* clip-referencing group per contiguous run of same-clip draw calls, in run
\* order, each referencing that run's clip.
C1_OneGroupPerRun ==
  (backend \in SvgBackends /\ ppc = "done")
    => ClipGroups(os) = RunIds(DcClipIds(Len(page.dcs)))

\* C1: in both SVG modes the clip-referencing groups are one for the page's
\* first Clip followed by one for every draw call whose clip id differs from
\* its predecessor's, that is one per contiguous run of the sequence "first
\* Clip, then the draw calls"; a finished document has closed every group.
C1_GroupPerRunAfterFirstClip ==
  (backend \in SvgBackends /\ ppc \in {"loop", "done"})
    => /\ ClipGroups(os) = RunIds(<<Head(page.cps).id>> \o DcClipIds(dci))
       /\ (ppc = "done" => GroupEnds(os) = Len(ClipGroups(os)))

C1_Witness ==
  /\ backend \in SvgBackends /\ ppc = "done"
  /\ Len(page.cps) = 3
  /\ DcClipIds(Len(page.dcs)) = <<1, 2, 1>>
  /\ ClipGroups(os) = <<0, 1, 2, 1>>

\* C2: in every backend the per-shape handler has been invoked exactly for
\* the draw calls handled so far, once each and in the Page's sequence
\* order, and a finished render has handled all of them.
C2_HandlersInPageOrder ==
  /\ ppc # "fault"
  /\ Len(visited) = dci
  /\ \A i \in 1..Len(visited) : visited[i].seq = page.dcs[i].seq
  /\ (ppc = "done" => dci = Len(page.dcs))

C2_Witness ==
  /\ ppc = "done" /\ backend = "cairo"
  /\ DcClipIds(Len(page.dcs)) = <<1, 2, 1>>
  /\ [i \in 1..Len(visited) |-> visited[i].seq] = <<1, 2, 3>>

(***************************************************************************)
(* Claims about the per-shape handlers (checked under SpecShape)           *)
(***************************************************************************)
\* the variants that carry a fill color
FilledKinds == {"rect", "circle", "polygon", "path"}

\* a fill call of the painter, a fill color or a fill opacity of the text
\* backends
FillOps == {"fill", "fill_preserve", "fill-opacity"}

\* C10: for a shape whose fill color has alpha = 0, no backend's handler
\* emits a fill operation or a fill colour.
C10_TransparentFillEmitsNoFill ==
  \A i \in 1..Len(visited) :
    LET dc == page.dcs[visited[i].seq]
    IN (dc.type \in FilledKinds /\ transparent(dc.fill))
         => \A k \in 1..Len(visited[i].out) : visited[i].out[k].op \notin FillOps

(***************************************************************************)
(* Claims about Path shapes (checked under SpecPath)                       *)
(***************************************************************************)
\* the path-building part of a handler's output: M / L / Z with each vertex
\* at 2-decimal precision, whichever backend wrote it
PathOp(tk) ==
  CASE tk.op \in {"move_to", "M"} ->
         [k |-> "M", pt |-> IF tk.op = "M" THEN tk.a ELSE Fmt2All(tk.a)]
    [] tk.op \in {"line_to", "L"} ->
         [k |-> "L", pt |-> IF tk.op = "L" THEN tk.a ELSE Fmt2All(tk.a)]
    [] OTHER -> [k |-> "Z", pt |-> <<>>]

PathOps(out) ==
  LET sel == SelectSeq(out, LAMBDA tk :
                 tk.op \in {"move_to", "line_to", "close_path", "M", "L", "Z"})
  IN [i \in 1..Len(sel) |-> PathOp(sel[i])]

\* the sub-paths a sequence of path operations draws: a move starts one, a
\* line adds a vertex to the current one, a close closes it
RECURSIVE SubPaths(_, _)
SubPaths(ops, acc) ==
  IF ops = <<>> THEN acc
  ELSE LET o == Head(ops)
           n == Len(acc)
       IN SubPaths(Tail(ops),
            CASE o.k = "M" -> Append(acc, [pts |-> <<o.pt>>, closed |-> FALSE])
              [] o.k = "L" /\ n > 0 -> [acc EXCEPT ![n].pts = Append(@, o.pt)]
              [] o.k = "Z" /\ n > 0 -> [acc EXCEPT ![n].closed = TRUE]
              [] OTHER -> acc)

\* the sub-paths nper asks for: entry j takes nper[j] consecutive points
NperStart(nper, j) == SumSeq(SubSeq(nper, 1, j - 1))

NperSubPaths(dc) ==
  [j \in 1..Len(dc.nper) |->
     [pts |-> [i \in 1..dc.nper[j] |-> Fmt2All(dc.points[NperStart(dc.nper, j) + i])],
      closed |-> TRUE]]

PathBackends == {"cairo", "svg", "svgp"}

\* C11: for a Path whose nper entries sum to the number of points, the raster
\* and both SVG backends draw one sub-path per nper entry, the j-th made of
\* nper[j] consecutive points, and every sub-path is closed.
C11_ClosedSubPathPerNperEntry ==
  \A i \in 1..Len(visited) :
    LET dc == page.dcs[visited[i].seq]
    IN (backend \in PathBackends /\ dc.type = "path"
          /\ SumSeq(dc.nper) = Len(dc.points))
         => SubPaths(PathOps(visited[i].out), <<>>) = NperSubPaths(dc)

(***************************************************************************)
(* Claims about dash decoding (checked under SpecDash)                     *)
(***************************************************************************)
\* C12: for every dash code and line width the decoding of every backend
\* ends, has produced at most 8 entries at every moment, and never writes
\* outside its entry buffer.
C12_DashDecodingTotal ==
  /\ [](/\ Len(d_ls) <= NibblesPerWord
        /\ d_pc # "overflow"
        /\ (d_backend = "cairo" => d_l <= DashBufferLen /\ Len(d_ls) = d_l))
  /\ <>(d_pc = "done")

C12_Witness ==
  /\ d_pc = "done"
  /\ d_backend = "cairo"
  /\ d_lty < LTY_BLANK
  /\ Len(d_ls) = NibblesPerWord

(***************************************************************************)
(* Claims about the JSON backend's records (checked under SpecShape)       *)
(***************************************************************************)
\* how a reader names what it finds in a record: the members of each part
\* of a record, in the order json_visit writes them
JsonMembers ==
  [rect |-> <<"clip_id", "x", "y", "w", "h">>,
   text |-> <<"clip_id", "x", "y", "rot", "hadj">>,
   font |-> <<"weight", "fontsize", "txtwidth_px">>,
   italic |-> <<"italic">>,
   circle |-> <<"clip_id", "x", "y", "radius">>,
   line_shape |-> <<"clip_id">>,
   polyline |-> <<"clip_id">>,
   polygon |-> <<"clip_id">>,
   path |-> <<"clip_id">>,
   raster |-> <<"clip_id", "x", "y", "w", "h", "rot">>,
   line |-> <<"line_col_r", "line_col_g", "line_col_b", "line_lwd", "line_lty",
              "line_lend", "line_ljoin", "line_lmitre">>,
   page |-> <<"id", "w", "h", "scale">>]

\* the parts that are one member each
JsonMember ==
  [fill |-> "fill_rgb", col |-> "col_rgb", str |-> "str", ends |-> "points",
   points |-> "points", nper |-> "nper", data_png_base64 |-> "raster",
   raster_wh |-> "wh", font_names |-> "font_names"]

JsonOp(op) ==
  CASE op = "data-png-base64" -> "data_png_base64"
    [] op = "raster-wh" -> "raster_wh"
    [] op = "line-shape" -> "line_shape"
    [] op = "font-names" -> "font_names"
    [] OTHER -> op

\* a JSON string ends at its first unescaped quote: what a reader gets back
\* of characters that were written between quotes as they are
RECURSIVE json_string_read(_)
json_string_read(chars) ==
  IF chars = <<>> \/ Head(chars) = "\"" THEN <<>>
  ELSE <<Head(chars)>> \o json_string_read(Tail(chars))

\* the value a reader recovers for member f from part tk, in hundredths for
\* the doubles; lmitre is written as a whole number
JsonValue(f, v) ==
  CASE f = "line_lmitre" -> v * 100
    [] f = "str" -> json_string_read(v)
    [] OTHER -> v

\* reading out gives member f the value v
JsonReads(out, f, v) ==
  \E i \in 1..Len(out) :
    LET op == JsonOp(out[i].op)
    IN \/ /\ op \in DOMAIN JsonMember
          /\ JsonMember[op] = f
          /\ JsonValue(f, out[i].a) = v
       \/ /\ op \in DOMAIN JsonMembers
          /\ \E k \in 1..Len(JsonMembers[op]) :
               JsonMembers[op][k] = f /\ JsonValue(f, out[i].a[k]) = v

\* the fields of the data model, each at 2-decimal precision
LineFields(line) ==
  [line_col_r |-> red(line.col), line_col_g |-> green(line.col),
   line_col_b |-> blue(line.col), line_col_alpha |-> alpha(line.col),
   line_lwd |-> Fmt2(line.lwd), line_lty |-> line.lty, line_lend |-> line.lend,
   line_ljoin |-> line.ljoin, line_lmitre |-> Fmt2(line.lmitre)]

FillFields(fill) == [fill_rgb |-> <<red(fill), green(fill), blue(fill)>>,
                     fill_alpha |-> alpha(fill)]

DcFields(dc) ==
  CASE dc.type = "rect" ->
         [clip_id |-> dc.clip_id, x |-> Fmt2(dc.rect[1]), y |-> Fmt2(dc.rect[2]),
          w |-> Fmt2(dc.rect[3]), h |-> Fmt2(dc.rect[4])]
           @@ FillFields(dc.fill) @@ LineFields(dc.line)
    [] dc.type = "text" ->
         [clip_id |-> dc.clip_id, x |-> Fmt2(dc.rect[1]), y |-> Fmt2(dc.rect[2]),
          rot |-> Fmt2(dc.rot), hadj |-> Fmt2(dc.hadj),
          col_rgb |-> <<red(dc.col), green(dc.col), blue(dc.col)>>,
          col_alpha |-> alpha(dc.col), str |-> dc.str,
          font_names |-> <<dc.features, dc.font_family>>, weight |-> dc.weight,
          italic |-> dc.italic, fontsize |-> Fmt2(dc.fontsize),
          txtwidth_px |-> Fmt2(dc.txtwidth_px)]
    [] dc.type = "circle" ->
         [clip_id |-> dc.clip_id, x |-> Fmt2(dc.rect[1]), y |-> Fmt2(dc.rect[2]),
          radius |-> Fmt2(dc.radius)]
           @@ FillFields(dc.fill) @@ LineFields(dc.line)
    [] dc.type \in {"line", "polyline"} ->
         [clip_id |-> dc.clip_id, points |-> svg_points(dc.points)]
           @@ LineFields(dc.line)
    [] dc.type = "polygon" ->
         [clip_id |-> dc.clip_id, points |-> svg_points(dc.points)]
           @@ FillFields(dc.fill) @@ LineFields(dc.line)
    [] dc.type = "path" ->
         [clip_id |-> dc.clip_id, points |-> svg_points(dc.points), nper |-> dc.nper,
          winding |-> dc.winding]
           @@ FillFields(dc.fill) @@ LineFields(dc.line)
    [] dc.type = "raster" ->
         [clip_id |-> dc.clip_id, x |-> Fmt2(dc.rect[1]), y |-> Fmt2(dc.rect[2]),
          w |-> Fmt2(dc.rect[3]), h |-> Fmt2(dc.rect[4]), rot |-> Fmt2(dc.rot),
          wh |-> dc.wh, raster |-> dc.raster, interpolate |-> dc.interpolate]

PageFields ==
  [id |-> page.id, w |-> Fmt2(page.w), h |-> Fmt2(page.h), scale |-> Fmt2(m_scale)]
    @@ FillFields(page.fill)

\* every field in fields is read back from out with its value
ReadsAll(out, fields) == \A f \in DOMAIN fields : JsonReads(out, f, fields[f])

\* C13: the JSON output of a Page holds every field of the Page, of each
\* Clip and of each draw call, so that reading it back gives each original
\* field value at 2-decimal precision.
C13_JsonRoundTrip ==
  (backend = "json" /\ ppc = "done")
    => /\ ReadsAll(SubSeq(os, 1, 2), PageFields)
       /\ \A j \in 1..Len(page.cps) :
            \E i \in 1..Len(os) :
              os[i] = Tok("clip", <<page.cps[j].id>> \o Fmt2All(clip_rect(page.cps[j])))
       /\ \A i \in 1..Len(visited) :
            ReadsAll(visited[i].out, DcFields(page.dcs[visited[i].seq]))

(***************************************************************************)
(* Claims about repeated renders (checked under SpecTwice)                 *)
(***************************************************************************)
\* a buffer with the per-render token blanked where the portable mode
\* writes it: in each clipPath id and in each clip-path reference
WithoutToken(out) ==
  [i \in 1..Len(out) |->
     IF out[i].op \in {"clipPath", "g-clip"} /\ Len(out[i].a) >= 2
       THEN [out[i] EXCEPT !.a[2] = 0]
       ELSE out[i]]

\* both renders of the Page have finished
BothRendered == prev.returned /\ ppc = "done"

ClipPathDefs(out) == {i \in 1..Len(out) : out[i].op = "clipPath"}
ClipPathRefs(out) == {i \in 1..Len(out) : out[i].op = "g-clip"}

\* the identifier a definition or a reference writes: clip id and token
ClipPathId(tk) == SubSeq(tk.a, 1, 2)
ClipPathIds(out) == {ClipPathId(out[i]) : i \in ClipPathDefs(out) \cup ClipPathRefs(out)}

CarriesToken(tk, token) == Len(tk.a) >= 2 /\ tk.a[2] = token

\* C15: in one portable render every clip-path definition id and every
\* clip-path reference carries the token generated for that render, every
\* reference names a clip-path defined in the same document, and two
\* documents with different tokens have no clip-path identifier in common.
C15_PortableClipIdsUnique ==
  (backend = "svgp" /\ ppc \in {"loop", "done"})
    => /\ \A i \in ClipPathDefs(os) \cup ClipPathRefs(os) :
            CarriesToken(os[i], m_unique_id)
       /\ \A i \in ClipPathRefs(os) :
            \E j \in ClipPathDefs(os) : ClipPathId(os[j]) = ClipPathId(os[i])
       /\ (prev.returned /\ prev.m_unique_id # m_unique_id)
            => ClipPathIds(os) \cap ClipPathIds(prev.os) = {}

C15_Witness ==
  /\ BothRendered
  /\ backend = "svgp"
  /\ prev.m_unique_id # m_unique_id
  /\ Cardinality(ClipPathDefs(os)) >= 2
  /\ Cardinality({os[i].a[1] : i \in ClipPathRefs(os)}) >= 2
  /\ Cardinality(ClipPathRefs(os)) >= 3

(***************************************************************************)
(* Claims about the output header (checked under SpecHeader)               *)
(***************************************************************************)
\* the width and height the output declares, in hundredths: the svg
\* element's width and height, the JSON record's w and h, the pixel count of
\* the image surface
Declared ==
  CASE backend \in SvgBackends -> <<os[1].a[1], os[1].a[2]>>
    [] backend = "json" -> <<os[1].a[2], os[1].a[3]>>
    [] backend = "cairo" -> <<os[1].a[1] * 100, os[1].a[2] * 100>>

\* P.width * scale and P.height * scale at 2-decimal precision
ScaledSize == <<Fmt2Of(page.w * m_scale, 1000), Fmt2Of(page.h * m_scale, 1000)>>
OwnSize == <<Fmt2(page.w), Fmt2(page.h)>>

\* whole units of a size in hundredths
WholeOf(size) == <<(size[1] \div 100) * 100, (size[2] \div 100) * 100>>

ViewBox == <<os[1].a[3], os[1].a[4]>>

Entities ==
  [amp |-> <<"&", "a", "m", "p", ";">>, lt |-> <<"&", "l", "t", ";">>,
   gt |-> <<"&", "g", "t", ";">>, quot |-> <<"&", "q", "u", "o", "t", ";">>,
   apos |-> <<"&", "a", "p", "o", "s", ";">>]

EntityChar == [amp |-> "&", lt |-> "<", gt |-> ">", quot |-> "\"", apos |-> "'"]

\* the entity name whose text starts chars at position i, "" if none does
EntityAt(chars, i) ==
  IF \E n \in DOMAIN Entities :
       /\ i + Len(Entities[n]) - 1 <= Len(chars)
       /\ SubSeq(chars, i, i + Len(Entities[n]) - 1) = Entities[n]
  THEN CHOOSE n \in DOMAIN Entities :
         /\ i + Len(Entities[n]) - 1 <= Len(chars)
         /\ SubSeq(chars, i, i + Len(Entities[n]) - 1) = Entities[n]
  ELSE ""

\* what a reader of the markup gets back: each entity as its character
RECURSIVE xml_unescaped(_)
xml_unescaped(chars) ==
  IF chars = <<>> THEN <<>>
  ELSE IF EntityAt(chars, 1) # ""
       THEN <<EntityChar[EntityAt(chars, 1)]>>
              \o xml_unescaped(SubSeq(chars, Len(Entities[EntityAt(chars, 1)]) + 1, Len(chars)))
       ELSE <<Head(chars)>> \o xml_unescaped(Tail(chars))

\* the text content a Text handler wrote
TextContent(out) == (CHOOSE i \in 1..Len(out) : out[i].op = "chars") 

TextWritten == visited[1].out[TextContent(visited[1].out)].a

\* C19: the text content both SVG modes write has no raw < > " ', has no &
\* that does not start one of the five entities, and reads back as the
\* original string, character by character and in order.
C19_TextContentEscaped ==
  (backend \in SvgBackends /\ ppc = "done")
    => /\ \A i \in 1..Len(TextWritten) : TextWritten[i] \notin {"<", ">", "\"", "'"}
       /\ \A i \in 1..Len(TextWritten) :
            TextWritten[i] = "&" => EntityAt(TextWritten, i) # ""
       /\ xml_unescaped(TextWritten) = page.dcs[1].str

C19_Witness ==
  /\ backend = "svgp" /\ ppc = "done"
  /\ page.dcs[1].str = <<"a", "<", "b", ">", "&", "'", "\"", "c">>
  /\ Len(TextWritten) > Len(page.dcs[1].str)

(***************************************************************************)
(* Claims about the raster dispatcher's clipping (checked under SpecPage)  *)
(***************************************************************************)
\* The clip of a cairo context after a sequence of calls.  cairo_clip
\* intersects the clip with the current path, cairo_reset_clip makes it
\* unbounded, cairo_save and cairo_restore push and pop it together with the
\* transform.  A clip set under the page's transform is kept as a rectangle
\* in page units (<<>> while unbounded), one set under a further transform
\* is kept as it was given.
Unclipped == [rect |-> <<>>, other |-> <<>>]
NoContext == [clip |-> Unclipped, path |-> <<>>, ctm |-> <<>>, saved |-> <<>>]

Max2(a, b) == IF a > b THEN a ELSE b
Min2(a, b) == IF a < b THEN a ELSE b

Intersect(r, s) ==
  IF r = <<>> THEN s
  ELSE LET x0 == Max2(r[1], s[1])
           y0 == Max2(r[2], s[2])
           x1 == Min2(r[1] + r[3], s[1] + s[3])
           y1 == Min2(r[2] + r[4], s[2] + s[4])
       IN <<x0, y0, Max2(x1 - x0, 0), Max2(y1 - y0, 0)>>

CairoCall(cx, tk) ==
  CASE tk.op = "scale" /\ Len(tk.a) = 2 /\ cx.ctm = <<>> -> cx
    [] tk.op \in {"translate", "rotate", "scale"} -> [cx EXCEPT !.ctm = Append(@, tk)]
    [] tk.op = "new_path" -> [cx EXCEPT !.path = <<>>]
    [] tk.op = "rectangle" -> [cx EXCEPT !.path = tk.a]
    [] tk.op = "reset_clip" -> [cx EXCEPT !.clip = Unclipped]
    [] tk.op = "clip" ->
         [cx EXCEPT !.path = <<>>,
                    !.clip = IF cx.ctm = <<>>
                             THEN [@ EXCEPT !.rect = Intersect(@, cx.path)]
                             ELSE [@ EXCEPT !.other = Append(@, <<cx.ctm, cx.path>>)]]
    [] tk.op \in {"fill", "stroke", "paint"} -> [cx EXCEPT !.path = <<>>]
    [] tk.op = "save" ->
         [cx EXCEPT !.saved = Append(@, [clip |-> cx.clip, ctm |-> cx.ctm])]
    [] tk.op = "restore" ->
         [cx EXCEPT !.clip = cx.saved[Len(cx.saved)].clip,
                    !.ctm = cx.saved[Len(cx.saved)].ctm,
                    !.saved = SubSeq(cx.saved, 1, Len(cx.saved) - 1)]
    [] OTHER -> cx

RECURSIVE CairoCalls(_, _)
CairoCalls(cx, calls) ==
  IF calls = <<>> THEN cx ELSE CairoCalls(CairoCall(cx, Head(calls)), Tail(calls))

\* the calls made before the handler of the last visited draw call began
CallsBeforeHandler == SubSeq(os, 1, Len(os) - Len(visited[Len(visited)].out))

\* the Clip of the page a draw call names
ClipOf(dc) == Head(clips_with_id(page.cps, dc.clip_id))

\* the draw calls handled so far whose clip id differs from the one before,
\* the first one being compared with the first Clip of the page
ClipChanges ==
  {i \in 1..dci : page.dcs[i].clip_id
                    # (IF i = 1 THEN Head(page.cps).id ELSE page.dcs[i - 1].clip_id)}

ClipResets == {i \in 1..Len(os) : os[i].op = "reset_clip"}

\* C20: in the raster dispatcher, whenever a draw call's handler is invoked
\* the active clip is the rectangle of the Clip the draw call names, for any
\* order of clip ids, and the clip is set again only where the clip id
\* differs from the previous draw call's.
C20_ActiveClipIsDrawCallsClip ==
  (backend = "cairo" /\ ppc \in {"loop", "done"})
    => /\ visited # <<>>
            => LET dc == page.dcs[visited[Len(visited)].seq]
               IN /\ CairoCalls(NoContext, CallsBeforeHandler).clip
                       = [rect |-> clip_rect(ClipOf(dc)), other |-> <<>>]
                  /\ CairoCalls(NoContext, os).clip
                       = [rect |-> clip_rect(ClipOf(dc)), other |-> <<>>]
                  /\ cr_clip = ClipOf(dc)
       /\ Cardinality(ClipResets) = Cardinality(ClipChanges)

C20_Witness ==
  /\ backend = "cairo" /\ ppc = "done"
  /\ Len(page.dcs) = MaxDcs
  /\ page.dcs[1].clip_id = 1 /\ page.dcs[2].clip_id = 0 /\ page.dcs[3].clip_id = 0
  /\ page.dcs[2].type = "raster"
  /\ Head(page.cps).id = 1
  /\ Cardinality(ClipResets) = 1

(***************************************************************************)
(* Claims about malformed pages (checked under SpecStray)                  *)
(***************************************************************************)
\* the draw calls of the page whose clip id no Clip of the page has
StrayDcs == {i \in 1..Len(page.dcs) : clips_with_id(page.cps, page.dcs[i].clip_id) = <<>>}

ClipBackends == {"cairo", "svg", "svgp"}

\* C21: when a draw call names a clip id no Clip of the page has, the raster
\* and the SVG backends stop with an explicit failure before that draw call
\* is handled: its handler is never invoked, the render does not finish with
\* an output, and it does not go on with a clip that was never defined.
C21_UnknownClipFailsFast ==
  (backend \in ClipBackends /\ StrayDcs # {})
    => /\ \A i \in 1..Len(visited) : visited[i].seq \notin StrayDcs
       /\ ppc # "done"
       /\ ppc # "fault"
       /\ (backend = "cairo" /\ ppc = "loop")
            => cr_clip \in {page.cps[j] : j \in 1..Len(page.cps)}

(***************************************************************************)
(* Claims about Paths whose nper does not fit (checked under SpecLoop)     *)
(***************************************************************************)
\* too few entries, too many entries, or an entry that is not positive
Malformed ==
  \/ SumSeq(l_nper) # l_points
  \/ \E i \in 1..Len(l_nper) : l_nper[i] < 1

\* C22: for a Path whose nper entries do not sum to its number of points, or
\* hold a 0, the sub-path loop never reads nper past its end, never lets
\* left wrap below zero, and the handler does not get to emit the Path: the
\* render fails explicitly instead.
C22_MalformedPathFails ==
  (l_pc # "idle" /\ Malformed)
    => /\ ~l_past
       /\ l_left >= 0
       /\ l_pc \notin {"done", "fault"}

(***************************************************************************)
(* Claims about the dash entries of the backends (checked under SpecDash)  *)
(***************************************************************************)
\* the number of leading nibbles of w that are not zero
LeadingNibbles(w) ==
  CHOOSE n \in 0..NibblesPerWord :
    /\ \A k \in 1..n : w[k] # 0
    /\ (n = NibblesPerWord \/ w[n + 1] = 0)

\* the entry a backend makes of one nibble at line width lwd
DashEntry(b, nibble, lwd) ==
  IF b = "cairo"
  THEN (nibble * (IF lwd > D(1) THEN lwd ELSE D(1)) * 72) \div 96
  ELSE Fmt2(scale_lty(nibble, lwd))

\* C23: for every dash code that is neither solid nor blank, the raster
\* backend and both SVG modes decode the same nibbles: those of the code from
\* the lowest up, ending just before the first zero nibble or after eight,
\* so that no entry comes from a zero nibble or from behind one.
C23_SameNibbleSequence ==
  (d_pc = "done" /\ d_lty \notin {LTY_BLANK, LTY_SOLID})
    => /\ Len(d_ls) = LeadingNibbles(Word(d_lty))
       /\ \A k \in 1..Len(d_ls) :
            /\ Word(d_lty)[k] # 0
            /\ d_ls[k] = DashEntry(d_backend, Word(d_lty)[k], d_lwd)

(***************************************************************************)
(* Claims about blank lines (checked under SpecShape)                      *)
(***************************************************************************)
\* the variants that carry a LineInfo
LinedKinds == {"rect", "circle", "line", "polyline", "polygon", "path"}

\* whether what a handler wrote strokes the shape: the painter's stroke
\* call; in style-sheet mode every shape is stroked (black by the style
\* sheet's default) unless "stroke: none;" is written; in portable mode a
\* shape is stroked when it has a stroke attribute
DrawsStroke(b, out) ==
  CASE b = "cairo" -> \E k \in 1..Len(out) : out[k].op = "stroke"
    [] b = "svg" -> \A k \in 1..Len(out) : out[k].op # "stroke-none"
    [] b = "svgp" -> \E k \in 1..Len(out) : out[k].op = "stroke"
    [] OTHER -> FALSE

\* C24: for every shape with a LineInfo (Rect, Circle, Line, Polyline,
\* Polygon, Path) whose line type is the blank sentinel, no backend draws a
\* stroke: the raster backend makes no stroke call and the SVG backends
\* write no visible stroke.
C24_BlankLineDrawsNoStroke ==
  \A i \in 1..Len(visited) :
    LET dc == page.dcs[visited[i].seq]
    IN (dc.type \in LinedKinds /\ dc.line.lty = LTY_BLANK)
         => ~DrawsStroke(backend, visited[i].out)

(***************************************************************************)
(* Claims about fill and stroke of closed shapes in the raster backend     *)
(* (checked under SpecShape)                                               *)
(***************************************************************************)
\* the positions in a handler's output of the painter calls named ops
CallsAt(out, ops) == {k \in 1..Len(out) : out[k].op \in ops}

\* the painter calls that start or extend the current path
PathCalls == {"new_path", "rectangle", "arc", "move_to", "line_to", "close_path"}

\* C25: in the raster backend, for every closed shape (Rect, Circle, Polygon,
\* Path) the fill comes before the stroke and both act on the same path: the
\* path is built once, filled with the path kept exactly when the fill color
\* is not transparent, and stroked exactly when the line color is not
\* transparent and the line type is not blank.
C25_FillBeforeStrokeOnSamePath ==
  \A i \in 1..Len(visited) :
    LET dc == page.dcs[visited[i].seq]
        out == visited[i].out
        fills == CallsAt(out, {"fill", "fill_preserve"})
        strokes == CallsAt(out, {"stroke"})
    IN (backend = "cairo" /\ dc.type \in FilledKinds)
         => /\ Cardinality(fills) = (IF ~transparent(dc.fill) THEN 1 ELSE 0)
            /\ Cardinality(strokes)
                 = (IF ~transparent(dc.line.col) /\ dc.line.lty # LTY_BLANK THEN 1 ELSE 0)
            /\ \A f \in fills : out[f].op = "fill_preserve"
            /\ \A f \in fills, s \in strokes : f < s
            /\ \A p \in CallsAt(out, PathCalls), q \in fills \cup strokes : p < q
            /\ Cardinality(CallsAt(out, {"new_path"})) = 1

\* a closed shape that was both filled and stroked by the raster backend
C25_Witness ==
  /\ backend = "cairo" /\ ppc = "done"
  /\ \E i \in 1..Len(visited) :
       /\ page.dcs[visited[i].seq].type = "polygon"
       /\ CallsAt(visited[i].out, {"fill_preserve"}) # {}
       /\ CallsAt(visited[i].out, {"stroke"}) # {}

(***************************************************************************)
(* Claims about the page background (checked under SpecPage)               *)
(***************************************************************************)
\* what follows the background rectangle of an SVG document for a page fill
SvgBackgroundFill(col) ==
  IF transparent(col) THEN {Tok("fill-none", <<>>)}
  ELSE {Tok("fill", <<red(col), green(col), blue(col)>>)}

\* C26: the page background is emitted before the first draw call is handled
\* and takes the page's fill color only when that color is not transparent:
\* the raster backend paints the full-page rectangle only then, and both SVG
\* modes write the background with fill "none" when the page fill's alpha
\* is 0.
C26_BackgroundUnlessTransparent ==
  (ppc = "loop" /\ dci = 0 /\ backend \in ClipBackends)
    => /\ visited = <<>>
       /\ backend = "cairo" =>
            /\ (\E k \in 1..Len(os) : os[k].op = "fill") <=> ~transparent(page.fill)
            /\ \A k \in 1..Len(os) :
                 os[k].op = "fill"
                   => \E r \in 1..(k - 1) : os[r] = Tok("rectangle", <<0, 0, page.w, page.h>>)
       /\ backend \in SvgBackends =>
            \E k \in 1..(Len(os) - 1) :
              /\ os[k].op = "background"
              /\ os[k + 1] \in SvgBackgroundFill(page.fill)

(***************************************************************************)
(* Claims about the raster backend's pixel buffers (checked under          *)
(* SpecRaster)                                                             *)
(***************************************************************************)
\* x is the whole part of c * a / 255
FloorOfScaled(x, c, a) == x * byte_mask <= c * a /\ c * a < (x + 1) * byte_mask

\* C27: the raster backend converts a Raster's pixel buffer pixel by pixel:
\* the stored alpha is the pixel's alpha; with alpha = 255 the stored
\* channels are the pixel's red, green and blue; with alpha < 255 each stored
\* channel is floor(channel * alpha / 255), which is at most alpha and fits a
\* byte; red and blue change places in the storage order (blue, green, red,
\* alpha); the output has one pixel per input pixel.
C27_PixelsPremultipliedAndSwapped ==
  \A i \in 1..Len(visited) :
    LET dc == page.dcs[visited[i].seq]
        out == visited[i].out
    IN (backend = "cairo" /\ dc.type = "raster")
         => \E k \in 1..Len(out) :
              /\ out[k].op = "set_source_surface"
              /\ Len(out[k].a) = Len(dc.raster)
              /\ \A p \in 1..Len(dc.raster) :
                   LET col == dc.raster[p]
                       px == out[k].a[p]
                   IN /\ Len(px) = 4
                      /\ px[4] = alpha(col)
                      /\ \A c \in 1..3 : px[c] \in 0..byte_mask
                      /\ alpha(col) = byte_mask
                           => px[3] = red(col) /\ px[2] = green(col) /\ px[1] = blue(col)
                      /\ alpha(col) < byte_mask
                           => /\ FloorOfScaled(px[3], red(col), alpha(col))
                              /\ FloorOfScaled(px[2], green(col), alpha(col))
                              /\ FloorOfScaled(px[1], blue(col), alpha(col))
                              /\ \A c \in 1..3 : px[c] <= alpha(col)

\* a raster with a half-transparent pixel whose red and blue differ was
\* converted
C27_Witness ==
  /\ backend = "cairo" /\ ppc = "done"
  /\ \E i \in 1..Len(visited) :
       LET dc == page.dcs[visited[i].seq]
       IN /\ dc.type = "raster"
          /\ Len(dc.raster) = MaxPixels
          /\ \E p \in 1..Len(dc.raster) :
               /\ alpha(dc.raster[p]) = 128
               /\ red(dc.raster[p]) # blue(dc.raster[p])

(***************************************************************************)
(* Claims about the tasks handed to the owning thread (checked under       *)
(* SpecThread)                                                             *)
(***************************************************************************)
\* the owning thread is inside input_handler
InHandler == r_pc \in {"process_tasks", "task"}

\* C28: a task submitted through r_thread is called only inside the host
\* loop's input handler; the tasks are called once each, in the order they
\* were queued; the handler lets each task return before it takes the next
\* and returns to the host loop only after it found the work queue empty.
C28_TasksRunInHandlerInQueueOrder ==
  /\ [](/\ seen.order = [k \in 1..Len(seen.order) |-> k]
        /\ Len(seen.order) + Len(work_queue) = n_tasks
        /\ work_queue = [k \in 1..Len(work_queue) |->
                           [work_queue[k] EXCEPT !.id = Len(seen.order) + k]])
  /\ [][seen.order' # seen.order
          => /\ r_pc = "process_tasks" /\ r_pc' = "task"
             /\ seen.ready = {seen.order[k] : k \in 1..Len(seen.order)}]_vars
  /\ [][(InHandler /\ r_pc' = "loop")
          => /\ work_queue = <<>>
             /\ seen.ready = {seen.order[k] : k \in 1..Len(seen.order)}]_vars

\* one invocation of the handler has run two tasks and returned
C28_Witness ==
  /\ r_pc = "loop"
  /\ Len(seen.order) >= 2
  /\ message_fd >= 1

(***************************************************************************)
(* Claims about wake-ups of the owning thread (checked under SpecWake)     *)
(***************************************************************************)
\* nobody is at work on the queue: the handler is not running and no
\* producer is between its push and its write
Quiet == r_pc = "loop" /\ \A p \in Producers : w_pc[p] = "idle"

=============================================================================
